---------------------------- MODULE Spec2Model ----------------------------
(***************************************************************************)
(* The morphological core of the Russian language-learning application:   *)
(* src/src/app.py (lemma lookup, analysis and the per-POS paradigm         *)
(* routines built on pymorphy2) and src/src/morph_utils.py (the            *)
(* MorphAnalyzer singleton and the VocabMatcher highlighter).              *)
(*                                                                         *)
(* Strings are sequences of one-character strings, so that lower(),        *)
(* strip(), the regular expressions and the slicing of the code are        *)
(* computed character by character.  Cyrillic is written in a Latin        *)
(* transliteration ("q" stands for the soft sign) and the Chinese display  *)
(* labels of the tables in pinyin, because the module is ASCII.            *)
(*                                                                         *)
(* pymorphy2 itself is not part of the repository.  Its dictionary is a    *)
(* small fixed lexicon (Dictionary); parse and inflect follow the          *)
(* library's documented algorithm, and every call can in addition fail:    *)
(* the faults of a call are an input of the operation that makes it.       *)
(***************************************************************************)
EXTENDS Integers, Sequences, FiniteSets, TLC

VARIABLES pymorphy2, morph_analyzer, instance, call, earlier, threads, shared

vars == <<pymorphy2, morph_analyzer, instance, call, earlier, threads, shared>>

\* what an observer of the calls keeps: earlier holds a call of
\* find_matches_in_text made before (its arguments, faults and spans), if any
observed == <<earlier>>

\* the requests that run at the same time, statement by statement: threads
\* is each request's position and locals, shared the module global
\* _morph_analyzer and the class attribute MorphAnalyzer._instance as the
\* requests find them.  Objects are numbered from 1, and 0 is None.
stepwise == <<threads, shared>>

(***************************************************************************)
(* Bounds of the model.                                                    *)
(***************************************************************************)
\* how many analyzer calls of one operation may fail
MaxFaults == 1

(***************************************************************************)
(* Python values.                                                          *)
(***************************************************************************)
None == "None"

\* {} and [] of Python: the function with the empty domain
EmptyDict == << >>

\* d[k] = v on a dict
Put(d, k, v) == [x \in (DOMAIN d) \cup {k} |-> IF x = k THEN v ELSE d[x]]

\* if items: d[k] = join(items), items a list or a dict
PutIfAny(d, k, items, joined) == IF DOMAIN items # {} THEN Put(d, k, joined) ELSE d

\* str.lower(), character by character
UpperChars == <<"A", "B", "D", "K", "M", "N", "O", "X">>
LowerChars == <<"a", "b", "d", "k", "m", "n", "o", "x">>

LowerChar(c) ==
    IF \E i \in DOMAIN UpperChars : UpperChars[i] = c
    THEN LowerChars[CHOOSE i \in DOMAIN UpperChars : UpperChars[i] = c]
    ELSE c

Lower(s) == [i \in DOMAIN s |-> LowerChar(s[i])]

(***************************************************************************)
(* The tag vocabulary of the analyzer (OpenCorpora grammemes) by category. *)
(* inflect() replaces the grammemes of a category by the requested one.    *)
(***************************************************************************)
POSTags == {"NOUN", "ADJF", "ADJS", "COMP", "VERB", "INFN", "PRTF", "PRTS",
            "GRND", "NUMR", "ADVB", "NPRO", "PREP", "CONJ"}
CaseTags == {"nomn", "gent", "datv", "accs", "ablt", "loct"}
NumberTags == {"sing", "plur"}
GenderTags == {"masc", "femn", "neut"}
PersonTags == {"1per", "2per", "3per"}
TenseTags == {"pres", "past", "futr"}
AspectTags == {"perf", "impf"}
VoiceTags == {"actv", "pssv"}
MoodTags == {"indc", "impr"}
AnimacyTags == {"anim", "inan"}
TransTags == {"tran", "intr"}

Categories == {POSTags, CaseTags, NumberTags, GenderTags, PersonTags,
               TenseTags, AspectTags, VoiceTags, MoodTags, AnimacyTags,
               TransTags}

\* grammemes outside the categories above
OtherTags == {"Sgtm", "Qual"}

KnownGrammemes == (UNION Categories) \cup OtherTags

\* the grammemes a requested grammeme g replaces
Incompatible(g) == UNION {c \ {g} : c \in {k \in Categories : g \in k}}

\* the value of a tag's attribute (tag.POS, tag.case, ...): None when absent
TagAttr(tag, category) ==
    IF tag \cap category = {} THEN None
    ELSE CHOOSE g \in tag \cap category : TRUE


(***************************************************************************)
(* The analyzer's dictionary.  A form is a record                          *)
(*   [word, tag, normal_form, lex, score]                                  *)
(* (pymorphy2's Parse: word, tag, normal_form, score; lex names the        *)
(* lexeme).  Dictionary lists every form, lexeme after lexeme, in the      *)
(* analyzer's own order; score is in thousandths.                          *)
(***************************************************************************)
W(stem, ending) == stem \o ending

Form(w, t, nf, lx, sc) ==
    [word |-> w, tag |-> t, normal_form |-> nf, lex |-> lx, score |-> sc]

\* kniga (book): a fully declinable noun; knigi and knige are ambiguous
Knig == <<"k", "n", "i", "g">>
KnigaTag == {"NOUN", "inan", "femn"}
KnigaForm(e, t, sc) == Form(W(Knig, e), KnigaTag \cup t, W(Knig, <<"a">>), "kniga", sc)
KnigaLexeme ==
    << KnigaForm(<<"a">>, {"sing", "nomn"}, 1000),
       KnigaForm(<<"i">>, {"sing", "gent"}, 800),
       KnigaForm(<<"e">>, {"sing", "datv"}, 500),
       KnigaForm(<<"u">>, {"sing", "accs"}, 1000),
       KnigaForm(<<"o", "j">>, {"sing", "ablt"}, 1000),
       KnigaForm(<<"e">>, {"sing", "loct"}, 500),
       KnigaForm(<<"i">>, {"plur", "nomn"}, 100),
       KnigaForm(<<>>, {"plur", "gent"}, 1000),
       KnigaForm(<<"a", "m">>, {"plur", "datv"}, 1000),
       KnigaForm(<<"i">>, {"plur", "accs"}, 100),
       KnigaForm(<<"a", "m", "i">>, {"plur", "ablt"}, 1000),
       KnigaForm(<<"a", "h">>, {"plur", "loct"}, 1000) >>

\* moloko (milk): singular only, so no plural form can be synthesized
Molok == <<"m", "o", "l", "o", "k">>
MolokoTag == {"NOUN", "inan", "neut", "Sgtm", "sing"}
MolokoForm(e, t, sc) == Form(W(Molok, e), MolokoTag \cup t, W(Molok, <<"o">>), "moloko", sc)
MolokoLexeme ==
    << MolokoForm(<<"o">>, {"nomn"}, 600),
       MolokoForm(<<"a">>, {"gent"}, 1000),
       MolokoForm(<<"u">>, {"datv"}, 1000),
       MolokoForm(<<"o">>, {"accs"}, 400),
       MolokoForm(<<"o", "m">>, {"ablt"}, 1000),
       MolokoForm(<<"e">>, {"loct"}, 1000) >>

\* nesti (to carry, imperfective) and prinesti (to bring, perfective): the
\* finite non-past forms of an imperfective verb are tagged pres, those of a
\* perfective verb futr; the lexeme of a verb holds its infinitive, its
\* participles and its gerund too
Nes == <<"n", "e", "s">>
VerbForm(pre, e, asp, t, sc) ==
    Form(pre \o W(Nes, e), {asp, "tran"} \cup t, pre \o W(Nes, <<"t", "i">>),
         IF pre = <<>> THEN "nesti" ELSE "prinesti", sc)
VerbLexeme(pre, asp, tense, grnd) ==
    << VerbForm(pre, <<"t", "i">>, asp, {"INFN"}, 1000),
       VerbForm(pre, <<"u">>, asp, {"VERB", "sing", "1per", tense, "indc"}, 1000),
       VerbForm(pre, <<"e", "s", "h", "q">>, asp, {"VERB", "sing", "2per", tense, "indc"}, 1000),
       VerbForm(pre, <<"e", "t">>, asp, {"VERB", "sing", "3per", tense, "indc"}, 1000),
       VerbForm(pre, <<"e", "m">>, asp, {"VERB", "plur", "1per", tense, "indc"}, 1000),
       VerbForm(pre, <<"e", "t", "e">>, asp, {"VERB", "plur", "2per", tense, "indc"}, 1000),
       VerbForm(pre, <<"u", "t">>, asp, {"VERB", "plur", "3per", tense, "indc"}, 1000),
       VerbForm(pre, <<>>, asp, {"VERB", "masc", "sing", "past", "indc"}, 1000),
       VerbForm(pre, <<"l", "a">>, asp, {"VERB", "femn", "sing", "past", "indc"}, 1000),
       VerbForm(pre, <<"l", "o">>, asp, {"VERB", "neut", "sing", "past", "indc"}, 1000),
       VerbForm(pre, <<"l", "i">>, asp, {"VERB", "plur", "past", "indc"}, 1000),
       VerbForm(pre, <<"i">>, asp, {"VERB", "sing", "impr"}, 1000),
       VerbForm(pre, <<"i", "t", "e">>, asp, {"VERB", "plur", "impr"}, 1000),
       VerbForm(pre, <<"y", "a">>, asp, {"GRND", grnd}, 1000),
       VerbForm(pre, <<"s", "h", "i", "j">>, asp, {"PRTF", "past", "actv", "masc", "sing", "nomn"}, 1000),
       VerbForm(pre, <<"s", "h", "e", "g", "o">>, asp, {"PRTF", "past", "actv", "masc", "sing", "gent"}, 1000),
       VerbForm(pre, <<"s", "h", "a", "y", "a">>, asp, {"PRTF", "past", "actv", "femn", "sing", "nomn"}, 1000),
       VerbForm(pre, <<"s", "h", "i", "e">>, asp, {"PRTF", "past", "actv", "plur", "nomn"}, 1000),
       VerbForm(pre, <<"e", "n", "n", "y", "j">>, asp, {"PRTF", "past", "pssv", "masc", "sing", "nomn"}, 1000),
       VerbForm(pre, <<"e", "n", "n", "y", "e">>, asp, {"PRTF", "past", "pssv", "plur", "nomn"}, 1000),
       VerbForm(pre, <<"e", "n">>, asp, {"PRTS", "past", "pssv", "masc", "sing"}, 1000) >>
NestiLexeme == VerbLexeme(<<>>, "impf", "pres", "pres")
PrinestiLexeme == VerbLexeme(<<"p", "r", "i">>, "perf", "futr", "past")

\* novyj (new): a qualitative adjective with short forms and a comparative
Nov == <<"n", "o", "v">>
AdjForm(e, t, sc) == Form(W(Nov, e), t, W(Nov, <<"y", "j">>), "novyj", sc)
AdjFull(e, t, sc) == AdjForm(e, {"ADJF", "Qual"} \cup t, sc)
NovyjLexeme ==
    << AdjFull(<<"y", "j">>, {"masc", "sing", "nomn"}, 600),
       AdjFull(<<"o", "g", "o">>, {"masc", "sing", "gent"}, 400),
       AdjFull(<<"o", "m", "u">>, {"masc", "sing", "datv"}, 500),
       AdjFull(<<"y", "j">>, {"masc", "sing", "accs"}, 400),
       AdjFull(<<"y", "m">>, {"masc", "sing", "ablt"}, 400),
       AdjFull(<<"o", "m">>, {"masc", "sing", "loct"}, 500),
       AdjFull(<<"a", "y", "a">>, {"femn", "sing", "nomn"}, 1000),
       AdjFull(<<"o", "j">>, {"femn", "sing", "gent"}, 300),
       AdjFull(<<"u", "y", "u">>, {"femn", "sing", "accs"}, 1000),
       AdjFull(<<"o", "e">>, {"neut", "sing", "nomn"}, 600),
       AdjFull(<<"o", "g", "o">>, {"neut", "sing", "gent"}, 300),
       AdjFull(<<"y", "e">>, {"plur", "nomn"}, 600),
       AdjFull(<<"y", "h">>, {"plur", "gent"}, 400),
       AdjFull(<<"y", "m">>, {"plur", "datv"}, 300),
       AdjFull(<<"y", "m", "i">>, {"plur", "ablt"}, 1000),
       AdjForm(<<>>, {"ADJS", "Qual", "masc", "sing"}, 1000),
       AdjForm(<<"a">>, {"ADJS", "Qual", "femn", "sing"}, 1000),
       AdjForm(<<"y">>, {"ADJS", "Qual", "plur"}, 1000),
       AdjForm(<<"e", "e">>, {"COMP", "Qual"}, 1000) >>

\* pyatq (five): a numeral carries a case but no number
Pyat == <<"p", "y", "a", "t">>
NumForm(e, t, sc) == Form(W(Pyat, e), {"NUMR"} \cup t, W(Pyat, <<"q">>), "pyatq", sc)
PyatqLexeme ==
    << NumForm(<<"q">>, {"nomn"}, 500),
       NumForm(<<"i">>, {"gent"}, 400),
       NumForm(<<"i">>, {"datv"}, 300),
       NumForm(<<"q">>, {"accs"}, 500),
       NumForm(<<"q", "y", "u">>, {"ablt"}, 1000),
       NumForm(<<"i">>, {"loct"}, 300) >>

\* on (he): a personal pronoun, singular only
OnTag == {"NPRO", "masc", "3per", "sing"}
OnForm(w, t, sc) == Form(w, OnTag \cup t, <<"o", "n">>, "on", sc)
OnLexeme ==
    << OnForm(<<"o", "n">>, {"nomn"}, 1000),
       OnForm(<<"e", "g", "o">>, {"gent"}, 600),
       OnForm(<<"e", "m", "u">>, {"datv"}, 1000),
       OnForm(<<"e", "g", "o">>, {"accs"}, 400),
       OnForm(<<"i", "m">>, {"ablt"}, 1000),
       OnForm(<<"n", "e", "m">>, {"loct"}, 1000) >>

\* v (in), tam (there): words that do not inflect; uzhe is the adverb
\* (already) and the comparative of uzkij (narrow): one spelling, two lemmas
Uzhe == <<"u", "z", "h", "e">>

OtherLexemes ==
    << Form(<<"v">>, {"PREP"}, <<"v">>, "v", 1000),
       Form(<<"t", "a", "m">>, {"ADVB"}, <<"t", "a", "m">>, "tam", 1000),
       Form(Uzhe, {"ADVB"}, Uzhe, "uzhe", 900),
       Form(Uzhe, {"COMP", "Qual"}, <<"u", "z", "k", "i", "j">>, "uzkij", 100) >>

\* mytq (to wash) and moj (my): moyu is the first person singular of the
\* verb and, far more often, the feminine accusative of the pronoun
Mytq == <<"m", "y", "t", "q">>
Moyu == <<"m", "o", "y", "u">>
Moj == <<"m", "o", "j">>
MytqLexeme ==
    << Form(Mytq, {"INFN", "impf", "tran"}, Mytq, "mytq", 1000),
       Form(Moyu, {"VERB", "impf", "tran", "sing", "1per", "pres", "indc"},
            Mytq, "mytq", 100) >>
MojLexeme ==
    << Form(Moj, {"ADJF", "masc", "sing", "nomn"}, Moj, "moj", 1000),
       Form(Moyu, {"ADJF", "femn", "sing", "accs"}, Moj, "moj", 900) >>

\* vina (guilt) and vino (wine): vina is the nominative of the one noun
\* and, less often, the genitive of the other
Vina == <<"v", "i", "n", "a">>
Vino == <<"v", "i", "n", "o">>
VinaLexeme ==
    << Form(Vina, {"NOUN", "inan", "femn", "sing", "nomn"}, Vina, "vina", 600),
       Form(<<"v", "i", "n", "y">>, {"NOUN", "inan", "femn", "sing", "gent"},
            Vina, "vina", 1000) >>
VinoLexeme ==
    << Form(Vino, {"NOUN", "inan", "neut", "sing", "nomn"}, Vino, "vino", 1000),
       Form(Vina, {"NOUN", "inan", "neut", "sing", "gent"}, Vino, "vino", 400) >>

Dictionary ==
    KnigaLexeme \o MolokoLexeme \o NestiLexeme \o PrinestiLexeme \o
    NovyjLexeme \o PyatqLexeme \o OnLexeme \o OtherLexemes \o
    MytqLexeme \o MojLexeme \o VinaLexeme \o VinoLexeme

\* the forms of one lexeme, in dictionary order (pymorphy2 get_lexeme)
ByLexeme(forms) ==
    [lx \in {forms[i].lex : i \in DOMAIN forms} |->
        SelectSeq(forms, LAMBDA f : f.lex = lx)]

Lexemes == ByLexeme(Dictionary)

Lexeme(lx) == Lexemes[lx]

Range(s) == {s[i] : i \in DOMAIN s}

(***************************************************************************)
(* The analyzer's calls.  A fault is a record [site, word, req, kind]: the *)
(* call at that site (parse of that word, inflect with that request)       *)
(* fails; kind is "absent" (inflect returns None: the analyzer's own       *)
(* dictionary has no such form) or "resource" (MemoryError and the like).  *)
(* The ValueError of a request with an unknown grammeme ("invalid") is no  *)
(* fault: the request decides it.                                          *)
(***************************************************************************)
ParseFault(w) == [site |-> "parse", word |-> w, req |-> {}, kind |-> "resource"]
InflectFault(r, k) == [site |-> "inflect", word |-> <<>>, req |-> r, kind |-> k]

InflectKinds == {"absent", "resource"}

\* the first index of the best score among the forms of ps
BestIndex(ps) ==
    CHOOSE i \in DOMAIN ps :
        /\ \A j \in DOMAIN ps : ps[j].score <= ps[i].score
        /\ \A j \in 1..(i - 1) : ps[j].score < ps[i].score

RECURSIVE SortByScore(_)
SortByScore(ps) ==
    IF ps = <<>> THEN <<>>
    ELSE LET i == BestIndex(ps)
         IN <<ps[i]>> \o SortByScore(SubSeq(ps, 1, i - 1) \o SubSeq(ps, i + 1, Len(ps)))

\* the analyses of every spelling the dictionary holds, the most likely first
ByWord(forms) ==
    [w \in {forms[i].word : i \in DOMAIN forms} |->
        SortByScore(SelectSeq(forms, LAMBDA f : f.word = w))]

Analyses == ByWord(Dictionary)

\* morph.parse(word): the analyses of the lower-cased word; none for a word
\* the dictionary does not hold
Lookup(table, key) == IF key \in DOMAIN table THEN table[key] ELSE <<>>

Parses(word) == Lookup(Analyses, Lower(word))

\* morph.parse(word) under the faults of the call
ParseRaises(word, faults) == ParseFault(word) \in faults

\* Tag.updated_grammemes: the tag with the request's grammemes put in
UpdatedGrammemes(tag, req) ==
    (tag \cup req) \ UNION {Incompatible(g) : g \in req}

\* pymorphy2's similarity of a candidate tag to the wanted grammemes, times 10
Similarity(grammemes, tag) ==
    10 * Cardinality(grammemes \cap tag)
    - Cardinality((grammemes \ tag) \cup (tag \ grammemes))

\* the lexeme's forms that carry every requested grammeme
PossibleResults(parse, req) ==
    SelectSeq(Lexeme(parse.lex), LAMBDA f : req \subseteq f.tag)

\* the outcome of parse.inflect(req): "form", or why there is none
InflectOutcome(parse, req, faults) ==
    IF \E f \in faults : f.site = "inflect" /\ f.req = req
    THEN (CHOOSE f \in faults : f.site = "inflect" /\ f.req = req).kind
    ELSE IF ~(req \subseteq KnownGrammemes) THEN "invalid"
    ELSE IF PossibleResults(parse, req) = <<>> THEN "absent"
    ELSE "form"

\* the form parse.inflect(req) returns: the first most similar candidate
MostSimilar(cands, want) ==
    cands[CHOOSE i \in DOMAIN cands :
            /\ \A j \in DOMAIN cands :
                  Similarity(want, cands[j].tag) <= Similarity(want, cands[i].tag)
            /\ \A j \in 1..(i - 1) :
                  Similarity(want, cands[j].tag) < Similarity(want, cands[i].tag)]

InflectForm(parse, req) ==
    MostSimilar(PossibleResults(parse, req), UpdatedGrammemes(parse.tag, req))

(***************************************************************************)
(* One cell of a paradigm table, as every routine requests it:             *)
(*     try: inflected = parse.inflect(req)                                 *)
(*          if inflected: table[key] = inflected.word                      *)
(*     except: pass                                                        *)
(***************************************************************************)
CellFilled(parse, req, faults) == InflectOutcome(parse, req, faults) = "form"

CellWord(parse, req) == InflectForm(parse, req).word

\* Cells with one try around the whole loop: a call that raises ends it and
\* the cells after it are lost (here: all of them)
CellsAborting(reqs, parse, faults) ==
    IF \E x \in DOMAIN reqs :
          InflectOutcome(parse, reqs[x], faults) \in {"invalid", "resource"}
    THEN EmptyDict
    ELSE [k \in {x \in DOMAIN reqs : CellFilled(parse, reqs[x], faults)} |->
             CellWord(parse, reqs[k])]

\* the dict a loop of such cells builds: reqs maps each key to its request,
\* and a key is set when its cell is filled
Cells(reqs, parse, faults) ==
    [k \in {x \in DOMAIN reqs : CellFilled(parse, reqs[x], faults)} |->
        CellWord(parse, reqs[k])]

\* the function f of grammemes, keyed by their display labels instead
Relabel(names, f) ==
    [k \in {names[c] : c \in DOMAIN f} |->
        f[CHOOSE c \in DOMAIN f : names[c] = k]]

cases == {"nomn", "gent", "datv", "accs", "ablt", "loct"}
numbers == {"sing", "plur"}
genders == {"masc", "femn", "neut"}
persons == {"1per", "2per", "3per"}
tenses == {"pres", "futr"}

\* the display labels the tables are keyed by (pinyin of the Chinese labels)
case_names ==
    [c \in cases |->
        CASE c = "nomn" -> "zhuge" [] c = "gent" -> "shuge" [] c = "datv" -> "yuge"
          [] c = "accs" -> "binge" [] c = "ablt" -> "gongjuge" [] c = "loct" -> "qianzhige"]
number_names == [n \in numbers |-> IF n = "sing" THEN "danshu" ELSE "fushu"]
gender_names ==
    [g \in genders |->
        CASE g = "masc" -> "yangxing" [] g = "femn" -> "yinxing" [] g = "neut" -> "zhongxing"]
person_names ==
    [q \in persons |-> CASE q = "1per" -> "yi" [] q = "2per" -> "er" [] q = "3per" -> "san"]
tense_names == [t \in tenses |-> IF t = "pres" THEN "xianzaishi" ELSE "jianglaishi"]
\* the verb routine numbers the cases of its participle tables
verb_case_names ==
    [c \in cases |->
        CASE c = "nomn" -> "yige" [] c = "gent" -> "erge" [] c = "datv" -> "sange"
          [] c = "accs" -> "sige" [] c = "ablt" -> "wuge" [] c = "loct" -> "liuge"]

\* the plural is one more key of a table keyed by gender
gender_plural_names ==
    [g \in genders \cup {"plur"} |->
        IF g = "plur" THEN number_names["plur"] ELSE gender_names[g]]

(***************************************************************************)
(* generate_noun_inflections(parse): number -> case -> form.  The request  *)
(* of a singular cell names the case only, that of a plural cell the case  *)
(* and the number.                                                         *)
(***************************************************************************)
NounRequest(num, case) == IF num = "sing" THEN {case} ELSE {case, num}

\* generate_noun_inflections with a third number in its list, keyed by its
\* own name for want of a label
NounInflectionsThirdNumber(parse, morph, faults) ==
    IF morph = None THEN EmptyDict
    ELSE Put(Relabel(number_names,
                 [num \in numbers |->
                     Cells(Relabel(case_names,
                                   [case \in cases |-> NounRequest(num, case)]),
                           parse, faults)]),
             "dual",
             Cells(Relabel(case_names, [case \in cases |-> {case, "dual"}]),
                   parse, faults))

\* generate_noun_inflections without its check of the analyzer: the analysis
\* it was handed inflects all the same
NounInflectionsUnguarded(parse, morph, faults) ==
    Relabel(number_names,
        [num \in numbers |->
            Cells(Relabel(case_names, [case \in cases |-> NounRequest(num, case)]),
                  parse, faults)])

generate_noun_inflections(parse, morph, faults) ==
    IF morph = None THEN EmptyDict
    ELSE Relabel(number_names,
             [num \in numbers |->
                 Cells(Relabel(case_names,
                               [case \in cases |-> NounRequest(num, case)]),
                       parse, faults)])

(***************************************************************************)
(* generate_numeral_inflections and generate_pronoun_inflections: the same *)
(* table, every request naming the case and the number.                    *)
(***************************************************************************)
\* a numeral table that keeps a number only when one of its cells is filled
NumeralInflectionsFilled(parse, morph, faults) ==
    IF morph = None THEN EmptyDict
    ELSE Relabel(number_names,
             [num \in {n \in numbers :
                          \E case \in cases : CellFilled(parse, {case, n}, faults)} |->
                 Cells(Relabel(case_names, [case \in cases |-> {case, num}]),
                       parse, faults)])

generate_numeral_inflections(parse, morph, faults) ==
    IF morph = None THEN EmptyDict
    ELSE Relabel(number_names,
             [num \in numbers |->
                 Cells(Relabel(case_names, [case \in cases |-> {case, num}]),
                       parse, faults)])

generate_pronoun_inflections(parse, morph, faults) ==
    IF morph = None THEN EmptyDict
    ELSE Relabel(number_names,
             [num \in numbers |->
                 Cells(Relabel(case_names, [case \in cases |-> {case, num}]),
                       parse, faults)])

(***************************************************************************)
(* generate_generic_inflections(parse): the six cases, only for an         *)
(* analysis that carries a case.                                           *)
(***************************************************************************)
generate_generic_inflections(parse, morph, faults) ==
    IF morph = None THEN EmptyDict
    ELSE IF TagAttr(parse.tag, CaseTags) = None THEN EmptyDict
    ELSE Cells(Relabel(case_names, [case \in cases |-> {case}]), parse, faults)

(***************************************************************************)
(* generate_verb_inflections(parse).                                       *)
(***************************************************************************)
\* ' // '.join(words)
RECURSIVE Join(_)
Join(words) ==
    IF words = <<>> THEN <<>>
    ELSE IF Len(words) = 1 THEN words[1]
    ELSE words[1] \o <<" ", "/", "/", " ">> \o Join(Tail(words))

\* [inflected.word] if the cell is filled, else []
CellList(parse, req, faults) ==
    IF CellFilled(parse, req, faults) THEN <<CellWord(parse, req)>> ELSE <<>>

\* gender -> form, and the plural form under its own key: base are the
\* grammemes every request of the table shares
GenderPluralDict(base, parse, faults) ==
    Cells(Relabel(gender_plural_names,
                  [g \in genders \cup {"plur"} |-> base \cup {g}]),
          parse, faults)

\* PresentFuture with the tense left out of the request: either table is
\* filled with whatever non-past forms the verb has
PresentFutureAnyTense(parse, faults) ==
    Relabel(tense_names,
        [tense \in tenses |->
            Relabel(number_names,
                [num \in numbers |->
                    Cells(Relabel(person_names,
                                  [person \in persons |-> {person, num}]),
                          parse, faults)])])

\* tense -> number -> person -> form, both tenses requested for every verb
PresentFuture(parse, faults) ==
    Relabel(tense_names,
        [tense \in tenses |->
            Relabel(number_names,
                [num \in numbers |->
                    Cells(Relabel(person_names,
                                  [person \in persons |-> {tense, person, num}]),
                          parse, faults)])])

\* case -> (gender -> form, plural form) of a past participle
Participle(voice, parse, faults) ==
    Relabel(verb_case_names,
        [case \in cases |->
            GenderPluralDict({"PRTF", "past", voice, case}, parse, faults)])

AdverbialParticiple(parse, faults) ==
    CellList(parse, {"GRND", "past"}, faults) \o
    CellList(parse, {"GRND", "pres"}, faults)

ActiveVoice(parse, faults) ==
    PutIfAny([xianzai_jianglaishi |-> PresentFuture(parse, faults),
              guoqushi |-> GenderPluralDict({"past"}, parse, faults),
              minglingshi |->
                  Cells(Relabel(number_names, [num \in numbers |-> {"impr", num}]),
                        parse, faults),
              guoqushi_zhudong_xingdongci |-> Participle("actv", parse, faults)],
             "fudongci",
             AdverbialParticiple(parse, faults),
             Join(AdverbialParticiple(parse, faults)))

PassiveVoice(parse, faults) ==
    PutIfAny([guoqushi_beidong_xingdongci |-> Participle("pssv", parse, faults)],
             "jianlve_xingshi",
             GenderPluralDict({"PRTF", "past", "pssv", "shrt"}, parse, faults),
             GenderPluralDict({"PRTF", "past", "pssv", "shrt"}, parse, faults))

generate_verb_inflections(parse, morph, faults) ==
    IF morph = None THEN EmptyDict
    ELSE [zhudong_yutai |-> ActiveVoice(parse, faults),
          beidong_yutai |-> PassiveVoice(parse, faults),
          budingshi |-> parse.normal_form]

(***************************************************************************)
(* generate_adjective_inflections(parse).                                  *)
(***************************************************************************)
\* the comparative: the first COMP analysis of the lemma if its parse has
\* one, else the form inflect({'COMP'}) returns
FirstComparative(parses, otherwise) ==
    IF \E i \in DOMAIN parses : "COMP" \in parses[i].tag
    THEN <<parses[CHOOSE i \in DOMAIN parses :
                     /\ "COMP" \in parses[i].tag
                     /\ \A j \in 1..(i - 1) : "COMP" \notin parses[j].tag].word>>
    ELSE otherwise

ComparativeForms(parse, faults) ==
    FirstComparative(IF ParseRaises(parse.normal_form, faults) THEN <<>>
                     ELSE Parses(parse.normal_form),
                     CellList(parse, {"COMP"}, faults))

AdjectiveSingular(parse, faults) ==
    Relabel(gender_names,
        [gender \in genders |->
            Cells(Relabel(case_names, [case \in cases |-> {case, gender, "sing"}]),
                  parse, faults)])

AdjectivePlural(parse, faults) ==
    Cells(Relabel(case_names, [case \in cases |-> {case, "plur"}]), parse, faults)

AdjectiveShortForms(parse, faults) ==
    Cells(Relabel(gender_plural_names,
                  [g \in genders \cup {"plur"} |->
                      IF g = "plur" THEN {"ADJS", "plur"} ELSE {"ADJS", g, "sing"}]),
          parse, faults)

generate_adjective_inflections(parse, morph, faults) ==
    IF morph = None THEN EmptyDict
    ELSE PutIfAny(
             PutIfAny(Relabel(number_names,
                          [num \in numbers |->
                              IF num = "sing" THEN AdjectiveSingular(parse, faults)
                              ELSE AdjectivePlural(parse, faults)]),
                      "duanwei_xingshi",
                      AdjectiveShortForms(parse, faults),
                      AdjectiveShortForms(parse, faults)),
             "bijiaoji",
             ComparativeForms(parse, faults),
             Join(ComparativeForms(parse, faults)))

(***************************************************************************)
(* get_morph_analyzer(): the lazily built global of app.py.  ctor is the   *)
(* outcome of pymorphy2.MorphAnalyzer() should this call construct it.     *)
(* The value is both returned and left in the global.                      *)
(***************************************************************************)
get_morph_analyzer(global, module, ctor) ==
    IF global = None /\ module # None
    THEN (IF ctor = "ok" THEN "analyzer" ELSE None)
    ELSE global

(***************************************************************************)
(* normalize_word(word) of app.py: the distinct lemmas of all analyses (a  *)
(* list in no particular order, here a set).                               *)
(***************************************************************************)
\* the lemma of the most likely analysis alone
TopNormalForm(parses) == {parses[i].normal_form : i \in DOMAIN parses \cap {1}}

NormalForms(parses) == {parses[i].normal_form : i \in DOMAIN parses}

\* x if x else y
OrElse(x, y) == IF x # {} THEN x ELSE y

normalize_word(word, morph, faults) ==
    IF morph = None THEN {Lower(word)}
    ELSE IF ParseRaises(word, faults) THEN {Lower(word)}
    ELSE OrElse(NormalForms(Parses(word)), {Lower(word)})

(***************************************************************************)
(* analyze_word_morphology(word).                                          *)
(***************************************************************************)
Analysis(q) ==
    [normal_form |-> q.normal_form,
     pos |-> TagAttr(q.tag, POSTags),
     case |-> TagAttr(q.tag, CaseTags),
     gender |-> TagAttr(q.tag, GenderTags),
     number |-> TagAttr(q.tag, NumberTags),
     tense |-> TagAttr(q.tag, TenseTags),
     person |-> TagAttr(q.tag, PersonTags),
     voice |-> TagAttr(q.tag, VoiceTags),
     mood |-> TagAttr(q.tag, MoodTags),
     aspect |-> TagAttr(q.tag, AspectTags),
     animacy |-> TagAttr(q.tag, AnimacyTags),
     transitivity |-> TagAttr(q.tag, TransTags),
     score |-> q.score,
     tag |-> q.tag]

AnalysesOf(parses) == [i \in DOMAIN parses |-> Analysis(parses[i])]

analyze_word_morphology(word, morph, faults) ==
    IF morph = None
    THEN [word |-> word, normal_forms |-> {Lower(word)}, analyses |-> <<>>]
    ELSE IF ParseRaises(word, faults)
    THEN [word |-> word, normal_forms |-> {Lower(word)}, analyses |-> <<>>,
          error |-> "resource"]
    ELSE [word |-> word,
          normal_forms |-> NormalForms(Parses(word)),
          analyses |-> AnalysesOf(Parses(word))]

(***************************************************************************)
(* generate_word_inflections(word).                                        *)
(***************************************************************************)
\* the parts of speech of the analyses, in the order of their first analysis
RECURSIVE PosOrder(_, _)
PosOrder(parses, seen) ==
    IF parses = <<>> THEN <<>>
    ELSE LET pos == TagAttr(parses[1].tag, POSTags)
         IN IF pos = None \/ pos \in seen
            THEN PosOrder(Tail(parses), seen)
            ELSE <<pos>> \o PosOrder(Tail(parses), seen \cup {pos})

RECURSIVE Reverse(_)
Reverse(s) == IF s = <<>> THEN <<>> ELSE Append(Reverse(Tail(s)), s[1])

\* the analyses of one part of speech, the last first
PosGroupLastFirst(parses, pos_str) ==
    Reverse(SelectSeq(parses, LAMBDA q : TagAttr(q.tag, POSTags) = pos_str))

\* pos_groups[pos_str]: the analyses of one part of speech
PosGroup(parses, pos_str) ==
    SelectSeq(parses, LAMBDA q : TagAttr(q.tag, POSTags) = pos_str)

\* the INFN branch up to its dispatch: the first-person-singular form is
\* re-parsed, and the analysis and POS of that form replace the infinitive's;
\* any failure on the way leaves both as they were
Reparsed(best_parse, verb_parses) ==
    IF verb_parses = <<>>
    THEN [verb_parse |-> best_parse, pos_str |-> "INFN"]
    ELSE [verb_parse |-> verb_parses[1],
          pos_str |-> TagAttr(verb_parses[1].tag, POSTags)]

ReparseForm(best_parse, verb_form, faults) ==
    Reparsed(best_parse,
             IF ParseRaises(verb_form.word, faults) THEN <<>>
             ELSE Parses(verb_form.word))

InfinitiveReparse(best_parse, faults) ==
    IF ~CellFilled(best_parse, {"1per", "sing"}, faults)
    THEN [verb_parse |-> best_parse, pos_str |-> "INFN"]
    ELSE ReparseForm(best_parse, InflectForm(best_parse, {"1per", "sing"}), faults)

\* the table of an infinitive, given the outcome re of the re-parse
InfinitiveInflections(best_parse, re, morph, faults) ==
    IF re.pos_str = "INFN"
    THEN generate_generic_inflections(best_parse, morph, faults)
    ELSE generate_verb_inflections(re.verb_parse, morph, faults)

\* a dispatch that sends every part of speech to the generic routine
PosInflectionsAllGeneric(pos_str, best_parse, morph, faults) ==
    generate_generic_inflections(best_parse, morph, faults)

\* the table one group of analyses adds to the result
PosInflections(pos_str, best_parse, morph, faults) ==
    IF pos_str = "INFN"
    THEN InfinitiveInflections(best_parse, InfinitiveReparse(best_parse, faults),
                               morph, faults)
    ELSE IF pos_str = "NOUN"
    THEN generate_noun_inflections(best_parse, morph, faults)
    ELSE IF pos_str = "VERB"
    THEN generate_verb_inflections(best_parse, morph, faults)
    ELSE IF pos_str \in {"ADJF", "ADJS"}
    THEN generate_adjective_inflections(best_parse, morph, faults)
    ELSE IF pos_str = "NUMR"
    THEN generate_numeral_inflections(best_parse, morph, faults)
    ELSE IF pos_str = "NPRO"
    THEN generate_pronoun_inflections(best_parse, morph, faults)
    ELSE generate_generic_inflections(best_parse, morph, faults)

\* the key it is stored under: the POS of the group, or for an infinitive the
\* POS the re-parse left in pos_str
PosKey(pos_str, best_parse, faults) ==
    IF pos_str = "INFN" THEN InfinitiveReparse(best_parse, faults).pos_str
    ELSE pos_str

\* the loop over pos_groups: a later group replaces the entry of its key
RECURSIVE Inflections(_, _, _, _, _)
Inflections(order, parses, morph, faults, acc) ==
    IF order = <<>> THEN acc
    ELSE Inflections(Tail(order), parses, morph, faults,
             Put(acc,
                 PosKey(order[1], PosGroup(parses, order[1])[1], faults),
                 [normal_form |-> PosGroup(parses, order[1])[1].normal_form,
                  inflections |->
                      PosInflections(order[1], PosGroup(parses, order[1])[1],
                                     morph, faults)]))

WordInflections(word, parses, morph, faults) ==
    IF parses = <<>>
    THEN [word |-> word, normal_form |-> Lower(word), inflections |-> EmptyDict]
    ELSE [word |-> word,
          normal_form |-> parses[1].normal_form,
          inflections |->
              Inflections(PosOrder(parses, {}), parses, morph, faults, EmptyDict)]

generate_word_inflections(word, morph, faults) ==
    IF morph = None
    THEN [word |-> word, normal_form |-> Lower(word), inflections |-> EmptyDict]
    ELSE IF ParseRaises(word, faults)
    THEN [word |-> word, normal_form |-> Lower(word), inflections |-> EmptyDict,
          error |-> "resource"]
    ELSE WordInflections(word, Parses(word), morph, faults)

(***************************************************************************)
(* The requests each routine makes, and the faults an operation can meet.  *)
(***************************************************************************)
NounRequests == {NounRequest(num, case) : num \in numbers, case \in cases}
NumberCaseRequests == {{case, num} : num \in numbers, case \in cases}
GenericRequests == {{case} : case \in cases}
VerbRequests ==
    {{tense, person, num} : tense \in tenses, person \in persons, num \in numbers}
    \cup {{"past", g} : g \in genders \cup {"plur"}}
    \cup {{"GRND", "past"}, {"GRND", "pres"}}
    \cup {{"impr", num} : num \in numbers}
    \cup {{"PRTF", "past", voice, case, g} :
              voice \in VoiceTags, case \in cases, g \in genders \cup {"plur"}}
    \cup {{"PRTF", "past", "pssv", "shrt", g} : g \in genders \cup {"plur"}}
AdjectiveRequests ==
    {{case, gender, "sing"} : case \in cases, gender \in genders}
    \cup {{case, "plur"} : case \in cases}
    \cup {{"ADJS", g, "sing"} : g \in genders}
    \cup {{"ADJS", "plur"}, {"COMP"}}
InfinitiveRequests == {{"1per", "sing"}}

InflectFaults(reqs) == {InflectFault(r, k) : r \in reqs, k \in InflectKinds}

\* the analyzer calls a word's part-of-speech group can make
GroupFaults(pos_str, best_parse) ==
    IF pos_str = "INFN"
    THEN InflectFaults(InfinitiveRequests \cup GenericRequests \cup VerbRequests)
         \cup {ParseFault(q.word) : q \in Range(PossibleResults(best_parse, {"1per", "sing"}))}
    ELSE IF pos_str = "NOUN" THEN InflectFaults(NounRequests)
    ELSE IF pos_str = "VERB" THEN InflectFaults(VerbRequests)
    ELSE IF pos_str \in {"ADJF", "ADJS"}
    THEN InflectFaults(AdjectiveRequests) \cup {ParseFault(best_parse.normal_form)}
    ELSE IF pos_str \in {"NUMR", "NPRO"} THEN InflectFaults(NumberCaseRequests)
    ELSE InflectFaults(GenericRequests)

ParsesFaults(parses, order) ==
    UNION {GroupFaults(order[i], PosGroup(parses, order[i])[1]) : i \in DOMAIN order}

WordFaults(word) ==
    {ParseFault(word)} \cup ParsesFaults(Parses(word), PosOrder(Parses(word), {}))

\* no call fails in two ways
Consistent(faults) ==
    \A f, g \in faults :
        (f.site = g.site /\ f.word = g.word /\ f.req = g.req) => f = g

\* the sets of at most k faults drawn from universe
RECURSIVE FaultSetsUpTo(_, _)
FaultSetsUpTo(universe, k) ==
    IF k = 0 THEN {{}}
    ELSE LET smaller == FaultSetsUpTo(universe, k - 1)
         IN smaller \cup
            {F \in {s \cup {f} : s \in smaller, f \in universe} : Consistent(F)}

\* an operation that finds no analyzer makes no analyzer call
FaultSets(universe, morph) ==
    IF morph = None THEN {{}} ELSE FaultSetsUpTo(universe, MaxFaults)

\* what pymorphy2.MorphAnalyzer() would do in this call: it returns or it
\* raises; a call that does not construct meets no failure of it
CtorOutcomes(global, module) ==
    IF global = None /\ module # None THEN {"ok", "raise"} ELSE {"ok"}

(***************************************************************************)
(* The inputs of the model: words of the dictionary in several forms and   *)
(* spellings, a word it does not hold, and the analyses of those words.    *)
(***************************************************************************)
WordInputs ==
    { W(Knig, <<"i">>),                      \* knigi: gent sing, nomn/accs plur
      <<"K", "n", "i", "g", "i">>,           \* Knigi, capitalised
      W(Knig, <<"a", "m", "i">>),            \* knigami: ablt plur
      W(Molok, <<"o">>),                     \* moloko
      W(Nes, <<"u">>),                       \* nesu: 1per sing pres
      <<"p", "r", "i">> \o W(Nes, <<"u">>),  \* prinesu: 1per sing futr
      W(Nes, <<"t", "i">>),                  \* nesti: the infinitive
      W(Nes, <<"s", "h", "i", "j">>),        \* nesshij: a participle
      W(Nov, <<"o", "m", "u">>),             \* novomu: datv sing masc
      W(Pyat, <<"i">>),                      \* pyati
      <<"e", "g", "o">>,                     \* ego: gent/accs of on
      <<"v">>,                               \* v
      Uzhe,                                  \* uzhe: adverb or comparative
      <<"x", "o">>,                          \* xo: not in the dictionary
      <<"X", "o">>,                          \* Xo
      <<>>,                                  \* the empty word
      <<" ">> }                              \* a blank

ParseInputs == UNION {Range(Parses(w)) : w \in WordInputs}

ParsesOf(posSet) == {q \in ParseInputs : TagAttr(q.tag, POSTags) \in posSet}

\* the parts of speech generate_word_inflections sends to the generic routine
GenericPOS == POSTags \ {"NOUN", "VERB", "ADJF", "ADJS", "NUMR", "NPRO"}

(***************************************************************************)
(* The operations of app.py.  Each call first asks get_morph_analyzer()    *)
(* for the analyzer, which may construct it; call records the operation,   *)
(* its inputs, the analyzer it found, the faults it met and its result.    *)
(* raised names the exception that escaped the call, None if it returned.  *)
(* A request is served at a time: the next starts once Return has handed   *)
(* the result to the caller, which keeps nothing of it.                    *)
(***************************************************************************)
Idle == call.op = "none"

NoCall == [op |-> "none", raised |-> None]

WordCall(name, word, ctor, faults, result) ==
    LET morph == get_morph_analyzer(morph_analyzer, pymorphy2, ctor)
    IN /\ morph_analyzer' = morph
       /\ call' = [op |-> name, word |-> word, ctor |-> ctor, morph |-> morph,
                   faults |-> faults, result |-> result, raised |-> None]
       /\ UNCHANGED <<pymorphy2, instance>>
       /\ UNCHANGED observed
       /\ UNCHANGED stepwise

ParseCall(name, parse, ctor, faults, result) ==
    LET morph == get_morph_analyzer(morph_analyzer, pymorphy2, ctor)
    IN /\ morph_analyzer' = morph
       /\ call' = [op |-> name, parse |-> parse, ctor |-> ctor, morph |-> morph,
                   faults |-> faults, result |-> result, raised |-> None]
       /\ UNCHANGED <<pymorphy2, instance>>
       /\ UNCHANGED observed
       /\ UNCHANGED stepwise

NormalizeWord ==
    /\ Idle
    /\ \E word \in WordInputs, ctor \in CtorOutcomes(morph_analyzer, pymorphy2) :
      \E faults \in FaultSets({ParseFault(word)},
                              get_morph_analyzer(morph_analyzer, pymorphy2, ctor)) :
        WordCall("normalize_word", word, ctor, faults,
            normalize_word(word, get_morph_analyzer(morph_analyzer, pymorphy2, ctor), faults))

AnalyzeWordMorphologyOf(words) ==
    /\ Idle
    /\ \E word \in words, ctor \in CtorOutcomes(morph_analyzer, pymorphy2) :
      \E faults \in FaultSets({ParseFault(word)},
                              get_morph_analyzer(morph_analyzer, pymorphy2, ctor)) :
        WordCall("analyze_word_morphology", word, ctor, faults,
            analyze_word_morphology(word, get_morph_analyzer(morph_analyzer, pymorphy2, ctor), faults))

AnalyzeWordMorphology == AnalyzeWordMorphologyOf(WordInputs)

GenerateWordInflectionsOf(words) ==
    /\ Idle
    /\ \E word \in words, ctor \in CtorOutcomes(morph_analyzer, pymorphy2) :
      \E faults \in FaultSets(WordFaults(word),
                              get_morph_analyzer(morph_analyzer, pymorphy2, ctor)) :
        WordCall("generate_word_inflections", word, ctor, faults,
            generate_word_inflections(word, get_morph_analyzer(morph_analyzer, pymorphy2, ctor), faults))

GenerateWordInflections == GenerateWordInflectionsOf(WordInputs)

\* the same call on the words that are no form of a verb: the verb routine,
\* by far the largest, is called on its own by GenerateVerbInflections
NonVerbWords ==
    {word \in WordInputs :
        \A q \in Range(Parses(word)) : q.tag \cap {"VERB", "INFN"} = {}}

GenerateNonVerbWordInflections == GenerateWordInflectionsOf(NonVerbWords)

\* the same call on the words of at most one character: the empty word, a
\* blank, v
ShortWords == {word \in WordInputs : Len(word) <= 1}

GenerateShortWordInflections == GenerateWordInflectionsOf(ShortWords)

\* the same call on infinitives: nesti, whose first person singular nesu is
\* a verb form only, and mytq, whose moyu is first of all a pronoun form
InfinitiveWords == {W(Nes, <<"t", "i">>), Mytq}

GenerateInfinitiveInflections == GenerateWordInflectionsOf(InfinitiveWords)

\* the two calls on words of several analyses: of two lemmas and two parts
\* of speech (uzhe, moyu), of two lemmas and one (vina), of one lemma (knigi)
AmbiguousWords == {Uzhe, Moyu, Vina, W(Knig, <<"i">>)}

AnalyzeAmbiguousWord == AnalyzeWordMorphologyOf(AmbiguousWords)

GenerateAmbiguousWordInflections == GenerateWordInflectionsOf(AmbiguousWords)

GenerateNounInflections ==
    /\ Idle
    /\ \E parse \in ParsesOf({"NOUN"}), ctor \in CtorOutcomes(morph_analyzer, pymorphy2) :
      \E faults \in FaultSets(GroupFaults("NOUN", parse),
                              get_morph_analyzer(morph_analyzer, pymorphy2, ctor)) :
        ParseCall("generate_noun_inflections", parse, ctor, faults,
            generate_noun_inflections(parse, get_morph_analyzer(morph_analyzer, pymorphy2, ctor), faults))

GenerateVerbInflections ==
    /\ Idle
    /\ \E parse \in ParsesOf({"VERB"}), ctor \in CtorOutcomes(morph_analyzer, pymorphy2) :
      \E faults \in FaultSets(GroupFaults("VERB", parse),
                              get_morph_analyzer(morph_analyzer, pymorphy2, ctor)) :
        ParseCall("generate_verb_inflections", parse, ctor, faults,
            generate_verb_inflections(parse, get_morph_analyzer(morph_analyzer, pymorphy2, ctor), faults))

GenerateAdjectiveInflections ==
    /\ Idle
    /\ \E parse \in ParsesOf({"ADJF", "ADJS"}), ctor \in CtorOutcomes(morph_analyzer, pymorphy2) :
      \E faults \in FaultSets(GroupFaults("ADJF", parse),
                              get_morph_analyzer(morph_analyzer, pymorphy2, ctor)) :
        ParseCall("generate_adjective_inflections", parse, ctor, faults,
            generate_adjective_inflections(parse, get_morph_analyzer(morph_analyzer, pymorphy2, ctor), faults))

GenerateNumeralInflections ==
    /\ Idle
    /\ \E parse \in ParsesOf({"NUMR"}), ctor \in CtorOutcomes(morph_analyzer, pymorphy2) :
      \E faults \in FaultSets(GroupFaults("NUMR", parse),
                              get_morph_analyzer(morph_analyzer, pymorphy2, ctor)) :
        ParseCall("generate_numeral_inflections", parse, ctor, faults,
            generate_numeral_inflections(parse, get_morph_analyzer(morph_analyzer, pymorphy2, ctor), faults))

GeneratePronounInflections ==
    /\ Idle
    /\ \E parse \in ParsesOf({"NPRO"}), ctor \in CtorOutcomes(morph_analyzer, pymorphy2) :
      \E faults \in FaultSets(GroupFaults("NPRO", parse),
                              get_morph_analyzer(morph_analyzer, pymorphy2, ctor)) :
        ParseCall("generate_pronoun_inflections", parse, ctor, faults,
            generate_pronoun_inflections(parse, get_morph_analyzer(morph_analyzer, pymorphy2, ctor), faults))

GenerateGenericInflections ==
    /\ Idle
    /\ \E parse \in ParsesOf(GenericPOS), ctor \in CtorOutcomes(morph_analyzer, pymorphy2) :
      \E faults \in FaultSets(GroupFaults("PREP", parse),
                              get_morph_analyzer(morph_analyzer, pymorphy2, ctor)) :
        ParseCall("generate_generic_inflections", parse, ctor, faults,
            generate_generic_inflections(parse, get_morph_analyzer(morph_analyzer, pymorphy2, ctor), faults))

\* the result goes to the caller; the analyzer stays
Return ==
    /\ ~Idle
    /\ call' = NoCall
    /\ UNCHANGED <<pymorphy2, morph_analyzer, instance>>
    /\ UNCHANGED observed
    /\ UNCHANGED stepwise

(***************************************************************************)
(* morph_utils.py.  A str argument can be None: NoneText stands for None   *)
(* where the code expects text.                                            *)
(***************************************************************************)
NoneText == <<None>>

\* bool(x) of a str or None
Truthy(x) == x # NoneText /\ x # <<>>

\* d.get(k, default)
Get(d, k, default) == IF k \in DOMAIN d THEN d[k] ELSE default

Whitespace == {" "}

RECURSIVE LStrip(_, _)
LStrip(s, chars) ==
    IF s # <<>> /\ s[1] \in chars THEN LStrip(Tail(s), chars) ELSE s

RECURSIVE RStrip(_, _)
RStrip(s, chars) ==
    IF s # <<>> /\ s[Len(s)] \in chars THEN RStrip(SubSeq(s, 1, Len(s) - 1), chars)
    ELSE s

\* str.strip()
Strip(s) == RStrip(LStrip(s, Whitespace), Whitespace)

\* a class that builds its instance anew in every call
MorphAnalyzerRebuilt(inst, module, ctor) ==
    [obj |-> "MorphAnalyzer",
     morph |-> IF module # None /\ ctor = "ok" THEN "analyzer" ELSE None]

\* MorphAnalyzer.__new__: the singleton is built by the first call, and with
\* it the analyzer, or None if pymorphy2 is missing or its constructor raises;
\* later calls return the first instance as it is
MorphAnalyzer(inst, module, ctor) ==
    IF inst.obj = None
    THEN [obj |-> "MorphAnalyzer",
          morph |-> IF module # None /\ ctor = "ok" THEN "analyzer" ELSE None]
    ELSE inst

\* get_lemma that has no lemma to give without the analyzer
GetLemmaOrNothing(word, morph, faults) ==
    IF ~Truthy(word) THEN word
    ELSE IF morph = None THEN <<>>
    ELSE IF ParseRaises(word, faults) \/ Parses(word) = <<>> THEN word
    ELSE Parses(word)[1].normal_form

\* get_lemma that gives back the stripped word when it has no lemma
GetLemmaStripped(word, morph, faults) ==
    IF ~Truthy(word) THEN word
    ELSE IF morph = None THEN Strip(word)
    ELSE IF ParseRaises(word, faults) \/ Parses(word) = <<>> THEN Strip(word)
    ELSE Parses(word)[1].normal_form

\* MorphAnalyzer.get_lemma(word); parse(word)[0] of no analysis raises
\* IndexError, caught like every Exception
get_lemma(word, morph, faults) ==
    IF morph = None \/ ~Truthy(word) THEN word
    ELSE IF ParseRaises(word, faults) \/ Parses(word) = <<>> THEN word
    ELSE Parses(word)[1].normal_form

\* the record analyze returns when it has no analysis
Unanalyzed(word) ==
    [word |-> word, lemma |-> word, grammemes |-> {}, POS |-> None,
     case |-> None, gender |-> None, number |-> None]

\* pos or str(parsed.tag.POS): str(None) is the text "None"
AnalyzePOS(tag) ==
    IF "ADJF" \in tag THEN "ADJF"
    ELSE IF "NOUN" \in tag THEN "NOUN"
    ELSE IF "VERB" \in tag THEN "VERB"
    ELSE IF "ADVB" \in tag THEN "ADVB"
    ELSE TagAttr(tag, POSTags)

Analyzed(word, parsed) ==
    [word |-> word,
     lemma |-> parsed.normal_form,
     grammemes |-> parsed.tag,
     POS |-> AnalyzePOS(parsed.tag),
     case |-> TagAttr(parsed.tag, CaseTags \cup {"voct"}),
     gender |-> TagAttr(parsed.tag, GenderTags),
     number |-> IF "sing" \in parsed.tag THEN "sing"
                ELSE IF "plur" \in parsed.tag THEN "plur" ELSE None]

\* MorphAnalyzer.analyze(word)
analyze(word, morph, faults) ==
    IF morph = None \/ ~Truthy(word) THEN Unanalyzed(word)
    ELSE IF ParseRaises(word, faults) \/ Parses(word) = <<>> THEN Unanalyzed(word)
    ELSE Analyzed(word, Parses(word)[1])

\* MorphAnalyzer.normalize_word(word): the punctuation the two patterns take
\* off the end and off the start of the word, then strip().  The sets hold
\* the ASCII characters of the patterns; the guillemets, the long dashes and
\* the ellipsis, which the patterns list beside them, are trimmed alike.
TrailingPunctuation == {".", ",", ";", ":", "!", "?", "\"", "-"}
LeadingPunctuation == {"\"", "-"}

MorphAnalyzer_normalize_word(word) ==
    IF ~Truthy(word) THEN word
    ELSE Strip(LStrip(RStrip(word, TrailingPunctuation), LeadingPunctuation))

\* VocabMatcher._split_text_with_positions(text): the maximal runs of word
\* characters with their start and end offsets (from 0, end exclusive)
WordChars ==
    {"a", "b", "d", "e", "g", "h", "i", "j", "k", "l", "m", "n", "o", "p", "q",
     "r", "s", "t", "u", "v", "x", "y", "_"} \cup Range(UpperChars)

\* a token whose offsets count from 1 and include the last character
TokenFromOne(text, first, last) ==
    [word |-> SubSeq(text, first, last), start |-> first, end |-> last + 1]

Token(text, first, last) ==
    [word |-> SubSeq(text, first, last), start |-> first - 1, end |-> last]

\* the run that ends before position i, if one began at position first
Ended(text, first, i) == IF first = 0 THEN <<>> ELSE <<Token(text, first, i - 1)>>

RECURSIVE Scan(_, _, _)
Scan(text, i, first) ==
    IF i > Len(text) THEN Ended(text, first, i)
    ELSE IF text[i] \in WordChars
    THEN Scan(text, i + 1, IF first = 0 THEN i ELSE first)
    ELSE Ended(text, first, i) \o Scan(text, i + 1, 0)

split_text_with_positions(text) == Scan(text, 1, 0)

\* str.replace(old, new) for a one-character old
RECURSIVE Replace(_, _, _)
Replace(text, old, new) ==
    IF text = <<>> THEN <<>>
    ELSE (IF text[1] = old THEN new ELSE <<text[1]>>) \o Replace(Tail(text), old, new)

\* the five replacements with the one of & made last
EscapeAmpersandLast(text) ==
    IF ~Truthy(text) THEN <<>>
    ELSE Replace(Replace(Replace(Replace(Replace(text,
             "<", <<"&", "l", "t", ";">>),
             ">", <<"&", "g", "t", ";">>),
             "\"", <<"&", "q", "u", "o", "t", ";">>),
             "'", <<"&", "#", "3", "9", ";">>),
             "&", <<"&", "a", "m", "p", ";">>)

\* VocabMatcher._escape_html(text): the five replacements one after the
\* other, that of & first
escape_html(text) ==
    IF ~Truthy(text) THEN <<>>
    ELSE Replace(Replace(Replace(Replace(Replace(text,
             "&", <<"&", "a", "m", "p", ";">>),
             "<", <<"&", "l", "t", ";">>),
             ">", <<"&", "g", "t", ";">>),
             "\"", <<"&", "q", "u", "o", "t", ";">>),
             "'", <<"&", "#", "3", "9", ";">>)

\* the outcome of a call: its result, or the exception that escapes it
Returned(value) == [result |-> value, raised |-> None]
Raised(exception) == [result |-> None, raised |-> exception]

\* VocabMatcher.prepare_vocab_index(vocab_words), the loop from the index
\* built so far.  An item is a dict with any of the keys word, lemma,
\* meaning, note.
IndexEntry(item, word, lemma) ==
    [word |-> word, lemma |-> lemma,
     meaning |-> Get(item, "meaning", <<>>),
     note |-> Get(item, "note", <<>>),
     original_item |-> item]

\* index[key] = entry, whatever the index holds
SetAlways(index, key, entry) == Put(index, key, entry)

\* if key not in index: index[key] = entry
SetDefault(index, key, entry) ==
    IF key \in DOMAIN index THEN index ELSE Put(index, key, entry)

\* item.get('lemma') or self.morph.get_lemma(word)
ItemLemma(item, word, morph, faults) ==
    IF Truthy(Get(item, "lemma", NoneText)) THEN item["lemma"]
    ELSE get_lemma(word, morph, faults)

AddItem(index, item, word, lemma) ==
    SetDefault(index, Lower(lemma), IndexEntry(item, word, lemma))

RECURSIVE prepare_vocab_index(_, _, _, _)
prepare_vocab_index(vocab_words, morph, faults, index) ==
    IF vocab_words = <<>> THEN Returned(index)
    ELSE IF Get(vocab_words[1], "word", <<>>) = NoneText
    THEN Raised("AttributeError")
    ELSE IF Strip(Get(vocab_words[1], "word", <<>>)) = <<>>
    THEN prepare_vocab_index(Tail(vocab_words), morph, faults, index)
    ELSE prepare_vocab_index(Tail(vocab_words), morph, faults,
             AddItem(index, vocab_words[1],
                     Strip(Get(vocab_words[1], "word", <<>>)),
                     ItemLemma(vocab_words[1],
                               Strip(Get(vocab_words[1], "word", <<>>)),
                               morph, faults)))

\* VocabMatcher.find_matches_in_text(text, vocab_index)
LemmaMatch(w, normalized, lemma, vocab_index) ==
    IF Lower(lemma) \in DOMAIN vocab_index
    THEN << [start |-> w.start, end |-> w.end, text |-> w.word,
             normalized |-> normalized, lemma |-> lemma,
             lemma_lower |-> Lower(lemma),
             vocab_info |-> vocab_index[Lower(lemma)]] >>
    ELSE <<>>

WordMatch(w, normalized, vocab_index, morph, faults) ==
    IF ~Truthy(normalized) THEN <<>>
    ELSE LemmaMatch(w, normalized, get_lemma(normalized, morph, faults), vocab_index)

\* the matches of the words, those of the later words first
RECURSIVE WordMatchesLastFirst(_, _, _, _)
WordMatchesLastFirst(words_with_pos, vocab_index, morph, faults) ==
    IF words_with_pos = <<>> THEN <<>>
    ELSE WordMatchesLastFirst(Tail(words_with_pos), vocab_index, morph, faults)
         \o WordMatch(words_with_pos[1],
                      MorphAnalyzer_normalize_word(words_with_pos[1].word),
                      vocab_index, morph, faults)

RECURSIVE WordMatches(_, _, _, _)
WordMatches(words_with_pos, vocab_index, morph, faults) ==
    IF words_with_pos = <<>> THEN <<>>
    ELSE WordMatch(words_with_pos[1],
                   MorphAnalyzer_normalize_word(words_with_pos[1].word),
                   vocab_index, morph, faults)
         \o WordMatches(Tail(words_with_pos), vocab_index, morph, faults)

find_matches_in_text(text, vocab_index, morph, faults) ==
    IF ~Truthy(text) \/ DOMAIN vocab_index = {} THEN <<>>
    ELSE WordMatches(split_text_with_positions(text), vocab_index, morph, faults)

\* the matches left in the order they were found
Unsorted(matches) == matches

\* matches.sort(key=start, reverse=True): the first match of the greatest
\* start comes first
\* the first match of the least start: a sort in ascending order
LeastStart(matches) ==
    CHOOSE i \in DOMAIN matches :
        /\ \A j \in DOMAIN matches : matches[i].start <= matches[j].start
        /\ \A j \in 1..(i - 1) : matches[i].start < matches[j].start

GreatestStart(matches) ==
    CHOOSE i \in DOMAIN matches :
        /\ \A j \in DOMAIN matches : matches[j].start <= matches[i].start
        /\ \A j \in 1..(i - 1) : matches[j].start < matches[i].start

Without(matches, i) == SubSeq(matches, 1, i - 1) \o SubSeq(matches, i + 1, Len(matches))

RECURSIVE SortByStartReverse(_)
SortByStartReverse(matches) ==
    IF matches = <<>> THEN <<>>
    ELSE <<matches[GreatestStart(matches)]>>
         \o SortByStartReverse(Without(matches, GreatestStart(matches)))

\* the mark element; its fixed pieces of markup are single elements of the text
MarkElement(vocab, matched_text) ==
    <<"<mark class=\"vocab-match\" data-lemma=\"">> \o escape_html(vocab["lemma"])
    \o <<"\" data-meaning=\"">> \o escape_html(vocab["meaning"])
    \o <<"\" data-note=\"">> \o escape_html(vocab["note"])
    \o <<"\">">> \o escape_html(matched_text) \o <<"</mark>">>

\* before + marked + after
Substitute(result, match) ==
    SubSeq(result, 1, match.start)
    \o MarkElement(match.vocab_info, SubSeq(result, match.start + 1, match.end))
    \o SubSeq(result, match.end + 1, Len(result))

\* the loop over the sorted matches; vocab["lemma"], vocab["meaning"] and
\* vocab["note"] raise KeyError on an index value without that key
RECURSIVE MarkMatches(_, _)
MarkMatches(result, matches) ==
    IF matches = <<>> THEN Returned(result)
    ELSE IF ~({"lemma", "meaning", "note"} \subseteq DOMAIN matches[1].vocab_info)
    THEN Raised("KeyError")
    ELSE MarkMatches(Substitute(result, matches[1]), Tail(matches))

\* VocabMatcher.highlight_text(text, vocab_index)
highlight_text(text, vocab_index, morph, faults) ==
    IF ~Truthy(text) \/ DOMAIN vocab_index = {} THEN Returned(text)
    ELSE MarkMatches(text,
             SortByStartReverse(find_matches_in_text(text, vocab_index, morph, faults)))

(***************************************************************************)
(* The inputs of the morph_utils operations.                               *)
(***************************************************************************)
\* how many entries a vocabulary list holds, how many pieces a text has
MaxVocab == 2
MaxPieces == 2

Kniga == W(Knig, <<"a">>)
Knigi == W(Knig, <<"i">>)
Nesu == W(Nes, <<"u">>)
Markup == <<"<", "b", ">", "&", "\"", "'">>

\* words handed to get_lemma, analyze and normalize_word
TextWords ==
    WordInputs \cup
    {<<>>, NoneText, <<" ">>, <<"\"">> \o Knigi \o <<",", " ">>, <<"-", "-">>}

\* vocabulary entries: with and without each key, with None and with text
VocabItems ==
    { [word |-> Kniga, meaning |-> Markup],
      [word |-> <<" ">> \o Lower(Knigi) \o <<" ">>, lemma |-> NoneText,
       meaning |-> NoneText, note |-> Markup],
      [word |-> <<"K">> \o Tail(Knigi), lemma |-> <<"K">> \o Tail(Knigi)],
      [word |-> Nesu, lemma |-> <<>>, note |-> <<"x", "o">>],
      [word |-> <<"x", "o">>, meaning |-> Kniga],
      [word |-> <<" ">>, meaning |-> Kniga],
      [word |-> <<"\"">> \o Knigi \o <<"\"", ",">>, note |-> Kniga],
      [lemma |-> Kniga],
      [word |-> NoneText, lemma |-> Kniga] }

RECURSIVE ListsUpTo(_, _)
ListsUpTo(S, n) ==
    IF n = 0 THEN {<<>>}
    ELSE ListsUpTo(S, n - 1) \cup
         {Append(l, x) : l \in {m \in ListsUpTo(S, n - 1) : Len(m) = n - 1}, x \in S}

VocabInputs == ListsUpTo(VocabItems, MaxVocab)

\* kto-to (someone): a word with an inner hyphen
KtoTo == <<"k", "t", "o", "-", "t", "o">>

\* texts: up to MaxPieces pieces one after the other, and None; a piece is
\* a word, a word with what follows it, or a blank
Pieces ==
    { Knigi, Knigi \o <<",", " ">>, <<"K">> \o Tail(W(Knig, <<"a", "m", "i">>)),
      Nesu \o <<"&">>, <<"x", "o">>, <<" ">>, KtoTo }

RECURSIVE Concat(_)
Concat(l) == IF l = <<>> THEN <<>> ELSE l[1] \o Concat(Tail(l))

TextInputs == {Concat(l) : l \in ListsUpTo(Pieces, MaxPieces)} \cup {NoneText}

\* vocabulary indexes: those prepare_vocab_index builds from one entry or
\* none, with or without the analyzer, and caller-built ones whose values
\* lack a key or hold None
PreparedIndexes ==
    {prepare_vocab_index(<<item>>, morph, {}, EmptyDict).result :
        item \in {i \in VocabItems : Get(i, "word", <<>>) # NoneText},
        morph \in {None, "analyzer"}}

CallerIndexes ==
    { [k \in {Kniga} |-> [lemma |-> Kniga, meaning |-> NoneText, note |-> NoneText]],
      [k \in {Kniga} |-> [word |-> Kniga, lemma |-> Kniga]] }

IndexInputs == PreparedIndexes \cup CallerIndexes

\* the analyzer calls of the operations: one parse a word
WordsOf(vocab_words) ==
    {Strip(Get(vocab_words[i], "word", <<>>)) :
        i \in {j \in DOMAIN vocab_words : Get(vocab_words[j], "word", <<>>) # NoneText}}

TokensOf(text) ==
    IF ~Truthy(text) THEN {}
    ELSE {MorphAnalyzer_normalize_word(w.word) :
             w \in Range(split_text_with_positions(text))}

ParseFaults(words) == {ParseFault(w) : w \in words}

\* what pymorphy2.MorphAnalyzer() would do in this call, which meets no
\* failure of it unless it builds the singleton
InstanceOutcomes(inst, module) ==
    IF inst.obj = None /\ module # None THEN {"ok", "raise"} ELSE {"ok"}

(***************************************************************************)
(* The operations of morph_utils.py, reached through get_analyzer() and    *)
(* get_matcher(): each call asks MorphAnalyzer() for the singleton, which  *)
(* the first call builds.                                                  *)
(***************************************************************************)
MatcherCall(name, args, ctor, faults, outcome) ==
    /\ instance' = MorphAnalyzer(instance, pymorphy2, ctor)
    /\ call' = [op |-> name, args |-> args, ctor |-> ctor,
                morph |-> MorphAnalyzer(instance, pymorphy2, ctor).morph,
                faults |-> faults, result |-> outcome.result,
                raised |-> outcome.raised]
    /\ UNCHANGED <<pymorphy2, morph_analyzer>>
    /\ UNCHANGED observed
    /\ UNCHANGED stepwise

GetLemma ==
    /\ Idle
    /\ \E word \in TextWords, ctor \in InstanceOutcomes(instance, pymorphy2) :
      \E faults \in FaultSets(ParseFaults({word}),
                              MorphAnalyzer(instance, pymorphy2, ctor).morph) :
        MatcherCall("get_lemma", [word |-> word], ctor, faults,
            Returned(get_lemma(word, MorphAnalyzer(instance, pymorphy2, ctor).morph, faults)))

Analyze ==
    /\ Idle
    /\ \E word \in TextWords, ctor \in InstanceOutcomes(instance, pymorphy2) :
      \E faults \in FaultSets(ParseFaults({word}),
                              MorphAnalyzer(instance, pymorphy2, ctor).morph) :
        MatcherCall("analyze", [word |-> word], ctor, faults,
            Returned(analyze(word, MorphAnalyzer(instance, pymorphy2, ctor).morph, faults)))

MorphAnalyzerNormalizeWord ==
    /\ Idle
    /\ \E word \in TextWords, ctor \in InstanceOutcomes(instance, pymorphy2) :
        MatcherCall("MorphAnalyzer.normalize_word", [word |-> word], ctor, {},
            Returned(MorphAnalyzer_normalize_word(word)))

PrepareVocabIndex ==
    /\ Idle
    /\ \E vocab_words \in VocabInputs, ctor \in InstanceOutcomes(instance, pymorphy2) :
      \E faults \in FaultSets(ParseFaults(WordsOf(vocab_words)),
                              MorphAnalyzer(instance, pymorphy2, ctor).morph) :
        MatcherCall("prepare_vocab_index", [vocab_words |-> vocab_words], ctor, faults,
            prepare_vocab_index(vocab_words,
                MorphAnalyzer(instance, pymorphy2, ctor).morph, faults, EmptyDict))

FindMatchesInTextOf(texts, indexes) ==
    /\ Idle
    /\ \E text \in texts, vocab_index \in indexes,
       ctor \in InstanceOutcomes(instance, pymorphy2) :
      \E faults \in FaultSets(ParseFaults(TokensOf(text)),
                              MorphAnalyzer(instance, pymorphy2, ctor).morph) :
        MatcherCall("find_matches_in_text",
            [text |-> text, vocab_index |-> vocab_index], ctor, faults,
            Returned(find_matches_in_text(text, vocab_index,
                MorphAnalyzer(instance, pymorphy2, ctor).morph, faults)))

FindMatchesInText == FindMatchesInTextOf(TextInputs, IndexInputs)

\* the same call on a few texts and indexes; when such a call returns, the
\* observer can keep it to compare a later one with
ProbeTexts == {Knigi \o <<",", " ">> \o Nesu \o <<"&">>, Nesu, <<"x", "o">>}

ProbeIndexes ==
    {prepare_vocab_index(<<item>>, "analyzer", {}, EmptyDict).result :
        item \in {[word |-> Kniga, meaning |-> Markup],
                  [word |-> Nesu, lemma |-> <<>>, note |-> <<"x", "o">>]}}

FindProbeMatches == FindMatchesInTextOf(ProbeTexts, ProbeIndexes)

Remember ==
    /\ call.op = "find_matches_in_text"
    /\ earlier = <<>>
    /\ earlier' = <<[args |-> call.args, faults |-> call.faults, result |-> call.result]>>
    /\ call' = NoCall
    /\ UNCHANGED <<pymorphy2, morph_analyzer, instance>>
    /\ UNCHANGED stepwise

HighlightText ==
    /\ Idle
    /\ \E text \in TextInputs, vocab_index \in IndexInputs,
       ctor \in InstanceOutcomes(instance, pymorphy2) :
      \E faults \in FaultSets(ParseFaults(TokensOf(text)),
                              MorphAnalyzer(instance, pymorphy2, ctor).morph) :
        MatcherCall("highlight_text",
            [text |-> text, vocab_index |-> vocab_index], ctor, faults,
            highlight_text(text, vocab_index,
                MorphAnalyzer(instance, pymorphy2, ctor).morph, faults))

\* highlight_text statement by statement.  HighlightTextBegin runs the
\* function up to its loop: result is the text and matches the sorted list
\* (empty when the function returns the text at once); each
\* HighlightTextStep is one pass of the loop, done holding the matches
\* substituted so far; HighlightTextEnd is the return
SortedMatches(text, vocab_index, morph, faults) ==
    IF ~Truthy(text) \/ DOMAIN vocab_index = {} THEN <<>>
    ELSE SortByStartReverse(find_matches_in_text(text, vocab_index, morph, faults))

HighlightTextBegin ==
    /\ Idle
    /\ \E text \in TextInputs, vocab_index \in IndexInputs,
          ctor \in InstanceOutcomes(instance, pymorphy2) :
         \E faults \in FaultSets(ParseFaults(TokensOf(text)),
                                 MorphAnalyzer(instance, pymorphy2, ctor).morph) :
            /\ instance' = MorphAnalyzer(instance, pymorphy2, ctor)
            /\ call' = [op |-> "highlight_text loop",
                        args |-> [text |-> text, vocab_index |-> vocab_index],
                        ctor |-> ctor,
                        morph |-> MorphAnalyzer(instance, pymorphy2, ctor).morph,
                        faults |-> faults,
                        matches |-> SortedMatches(text, vocab_index,
                            MorphAnalyzer(instance, pymorphy2, ctor).morph, faults),
                        done |-> <<>>,
                        result |-> text,
                        raised |-> None]
    /\ UNCHANGED <<pymorphy2, morph_analyzer>>
    /\ UNCHANGED observed
    /\ UNCHANGED stepwise

HighlightTextStep ==
    /\ call.op = "highlight_text loop"
    /\ call.matches # <<>>
    /\ call' =
          IF {"lemma", "meaning", "note"} \subseteq DOMAIN call.matches[1].vocab_info
          THEN [call EXCEPT !.result = Substitute(@, call.matches[1]),
                            !.matches = Tail(@),
                            !.done = Append(@, call.matches[1])]
          ELSE [op |-> "highlight_text", args |-> call.args, ctor |-> call.ctor,
                morph |-> call.morph, faults |-> call.faults,
                result |-> None, raised |-> "KeyError"]
    /\ UNCHANGED <<pymorphy2, morph_analyzer, instance>>
    /\ UNCHANGED observed
    /\ UNCHANGED stepwise

HighlightTextEnd ==
    /\ call.op = "highlight_text loop"
    /\ call.matches = <<>>
    /\ call' = [op |-> "highlight_text", args |-> call.args, ctor |-> call.ctor,
                morph |-> call.morph, faults |-> call.faults,
                result |-> call.result, raised |-> None]
    /\ UNCHANGED <<pymorphy2, morph_analyzer, instance>>
    /\ UNCHANGED observed
    /\ UNCHANGED stepwise

(***************************************************************************)
(* Simultaneous requests.  Each thread makes one call, of                  *)
(* get_morph_analyzer of app.py or of MorphAnalyzer() followed by          *)
(* get_lemma, and the threads take their statements in any order.  A       *)
(* thread is [pc, local, got, lemma]: its position, the analyzer it        *)
(* constructed, the object its call returned and what get_lemma gave it.   *)
(***************************************************************************)
MaxThreads == 2

Threads == 1..MaxThreads

NoRequest == [pc |-> "idle", local |-> 0, got |-> 0, lemma |-> NoneText]

AtPc(t, pc) == threads[t].pc = pc

\* thread t moves on with some of its fields changed
Step(t, changes) ==
    threads' = [threads EXCEPT ![t] =
                   [f \in DOMAIN threads[t] |->
                       IF f \in DOMAIN changes THEN changes[f] ELSE threads[t][f]]]

Untouched == UNCHANGED <<pymorphy2, morph_analyzer, instance, call, earlier>>

\* a request calls get_morph_analyzer()
CallGetMorphAnalyzer ==
    \E t \in Threads :
        /\ AtPc(t, "idle")
        /\ Step(t, [pc |-> "check_global"])
        /\ UNCHANGED shared
        /\ Untouched

\* if _morph_analyzer is None and pymorphy2 is not None:
CheckGlobal ==
    \E t \in Threads :
        /\ AtPc(t, "check_global")
        /\ Step(t, [pc |-> IF shared.global = 0 /\ pymorphy2 # None
                           THEN "construct_global" ELSE "return_global"])
        /\ UNCHANGED shared
        /\ Untouched

\* try: ... pymorphy2.MorphAnalyzer() returns a new analyzer, or raises
ConstructGlobal ==
    \E t \in Threads, ctor \in {"ok", "raise"} :
        /\ AtPc(t, "construct_global")
        /\ IF ctor = "ok"
           THEN /\ Step(t, [pc |-> "assign_global", local |-> shared.analyzers + 1])
                /\ shared' = [shared EXCEPT !.analyzers = @ + 1]
           ELSE /\ Step(t, [pc |-> "assign_global", local |-> 0])
                /\ shared' = [shared EXCEPT !.raised = TRUE]
        /\ Untouched

\* _morph_analyzer = the new analyzer; except: _morph_analyzer = None
AssignGlobal ==
    \E t \in Threads :
        /\ AtPc(t, "assign_global")
        /\ Step(t, [pc |-> "return_global"])
        /\ shared' = [shared EXCEPT !.global = threads[t].local]
        /\ Untouched

\* return _morph_analyzer
ReturnGlobal ==
    \E t \in Threads :
        /\ AtPc(t, "return_global")
        /\ Step(t, [pc |-> "done_global", got |-> shared.global])
        /\ UNCHANGED shared
        /\ Untouched

\* a request calls MorphAnalyzer(), as VocabMatcher() and get_analyzer() do
CallMorphAnalyzer ==
    \E t \in Threads :
        /\ AtPc(t, "idle")
        /\ Step(t, [pc |-> "check_instance"])
        /\ UNCHANGED shared
        /\ Untouched

\* if cls._instance is None:
CheckInstance ==
    \E t \in Threads :
        /\ AtPc(t, "check_instance")
        /\ Step(t, [pc |-> IF shared.instance = 0
                           THEN "new_instance" ELSE "return_instance"])
        /\ UNCHANGED shared
        /\ Untouched

\* cls._instance = super().__new__(cls): the new object is in the class
\* attribute at once, its _morph still the class's None
NewInstance ==
    \E t \in Threads :
        /\ AtPc(t, "new_instance")
        /\ Step(t, [pc |-> IF pymorphy2 # None
                           THEN "construct_morph" ELSE "return_instance"])
        /\ shared' = [shared EXCEPT !.instance = shared.instances + 1,
                                    !.instances = @ + 1]
        /\ Untouched

\* try: ... pymorphy2.MorphAnalyzer() returns a new analyzer, or raises
ConstructMorph ==
    \E t \in Threads, ctor \in {"ok", "raise"} :
        /\ AtPc(t, "construct_morph")
        /\ IF ctor = "ok"
           THEN /\ Step(t, [pc |-> "assign_morph", local |-> shared.analyzers + 1])
                /\ shared' = [shared EXCEPT !.analyzers = @ + 1]
           ELSE /\ Step(t, [pc |-> "assign_morph", local |-> 0])
                /\ shared' = [shared EXCEPT !.raised = TRUE]
        /\ Untouched

\* cls._instance._morph = the new analyzer (or None): cls._instance is read
\* again, it is the object the class attribute holds now
AssignMorph ==
    \E t \in Threads :
        /\ AtPc(t, "assign_morph")
        /\ Step(t, [pc |-> "return_instance"])
        /\ shared' = [shared EXCEPT !.morph[shared.instance] = threads[t].local]
        /\ Untouched

\* return cls._instance
ReturnInstance ==
    \E t \in Threads :
        /\ AtPc(t, "return_instance")
        /\ Step(t, [pc |-> "get_lemma", got |-> shared.instance])
        /\ UNCHANGED shared
        /\ Untouched

\* get_lemma(word) on the object returned, for a word the dictionary holds:
\* the word itself if self._morph is None, else its lemma
GetLemmaOfInstance ==
    \E t \in Threads :
        /\ AtPc(t, "get_lemma")
        /\ Step(t, [pc |-> "done_instance",
                    lemma |-> get_lemma(Knigi,
                                 IF shared.morph[threads[t].got] = 0
                                 THEN None ELSE "analyzer", {})])
        /\ UNCHANGED shared
        /\ Untouched

(***************************************************************************)
(* The process starts with the import of pymorphy2 done (it succeeded or   *)
(* left None) and nothing constructed.                                     *)
(***************************************************************************)
Init ==
    /\ pymorphy2 \in {None, "module"}
    /\ morph_analyzer = None
    /\ instance = [obj |-> None, morph |-> None]
    /\ call = NoCall
    /\ earlier = <<>>
    /\ threads = [t \in Threads |-> NoRequest]
    /\ shared = [global |-> 0, instance |-> 0, morph |-> [i \in Threads |-> 0],
                 analyzers |-> 0, instances |-> 0, raised |-> FALSE]

Next ==
    \/ NormalizeWord
    \/ AnalyzeWordMorphology
    \/ GenerateNonVerbWordInflections
    \/ GenerateNounInflections
    \/ GenerateVerbInflections
    \/ GenerateAdjectiveInflections
    \/ GenerateNumeralInflections
    \/ GeneratePronounInflections
    \/ GenerateGenericInflections
    \/ Return

Spec == Init /\ [][Next]_vars

NextMatcher ==
    \/ GetLemma
    \/ Analyze
    \/ MorphAnalyzerNormalizeWord
    \/ PrepareVocabIndex
    \/ FindMatchesInText
    \/ HighlightText
    \/ Return

SpecMatcher == Init /\ [][NextMatcher]_vars

\* the operations that take the user's text: a word to look up (here a
\* short one), a text to mark
NextText ==
    \/ GenerateShortWordInflections
    \/ GetLemma
    \/ FindMatchesInText
    \/ HighlightText
    \/ Return

SpecText == Init /\ [][NextText]_vars

\* find_matches_in_text called again and again, with other operations of the
\* core in between
NextAgain ==
    \/ FindProbeMatches
    \/ Remember
    \/ GetLemma
    \/ Analyze
    \/ GenerateShortWordInflections
    \/ Return

\* generate_word_inflections on infinitives
NextInfinitive ==
    \/ GenerateInfinitiveInflections
    \/ Return

SpecInfinitive == Init /\ [][NextInfinitive]_vars

\* highlight_text taken one pass of its loop at a time
NextHighlight ==
    \/ HighlightTextBegin
    \/ HighlightTextStep
    \/ HighlightTextEnd
    \/ Return

SpecHighlight == Init /\ [][NextHighlight]_vars

\* the word operations of app.py on words of several analyses
NextAmbiguous ==
    \/ AnalyzeAmbiguousWord
    \/ GenerateAmbiguousWordInflections
    \/ Return

SpecAmbiguous == Init /\ [][NextAmbiguous]_vars

\* generate_word_inflections on every word of the inputs
NextWord ==
    \/ GenerateWordInflections
    \/ Return

SpecWord == Init /\ [][NextWord]_vars

SpecAgain == Init /\ [][NextAgain]_vars

\* requests at the same time
NextThreads ==
    \/ CallGetMorphAnalyzer
    \/ CheckGlobal
    \/ ConstructGlobal
    \/ AssignGlobal
    \/ ReturnGlobal
    \/ CallMorphAnalyzer
    \/ CheckInstance
    \/ NewInstance
    \/ ConstructMorph
    \/ AssignMorph
    \/ ReturnInstance
    \/ GetLemmaOfInstance

SpecThreads == Init /\ [][NextThreads]_vars

(***************************************************************************)
(* Properties.  The cells of each routine's table: the path of keys a cell *)
(* is stored under and the request it is filled from.                      *)
(***************************************************************************)
ParadigmOps ==
    {"generate_noun_inflections", "generate_verb_inflections",
     "generate_adjective_inflections", "generate_numeral_inflections",
     "generate_pronoun_inflections", "generate_generic_inflections"}

Cell(path, req) == [path |-> path, req |-> req]

NounCells ==
    {Cell(<<number_names[n], case_names[c]>>, IF n = "sing" THEN {c} ELSE {c, n}) :
        n \in numbers, c \in cases}

NumberCaseCells ==
    {Cell(<<number_names[n], case_names[c]>>, {c, n}) : n \in numbers, c \in cases}

GenericCells(parse) ==
    IF parse.tag \cap CaseTags = {} THEN {}
    ELSE {Cell(<<case_names[c]>>, {c}) : c \in cases}

VerbCells ==
    {Cell(<<"zhudong_yutai", "xianzai_jianglaishi", tense_names[t],
            number_names[n], person_names[q]>>, {t, q, n}) :
        t \in tenses, n \in numbers, q \in persons}
    \cup {Cell(<<"zhudong_yutai", "guoqushi", gender_plural_names[g]>>, {"past", g}) :
             g \in genders \cup {"plur"}}
    \cup {Cell(<<"zhudong_yutai", "minglingshi", number_names[n]>>, {"impr", n}) :
             n \in numbers}
    \cup {Cell(<<"zhudong_yutai", "guoqushi_zhudong_xingdongci", verb_case_names[c],
                 gender_plural_names[g]>>, {"PRTF", "past", "actv", c, g}) :
             c \in cases, g \in genders \cup {"plur"}}
    \cup {Cell(<<"beidong_yutai", "guoqushi_beidong_xingdongci", verb_case_names[c],
                 gender_plural_names[g]>>, {"PRTF", "past", "pssv", c, g}) :
             c \in cases, g \in genders \cup {"plur"}}
    \cup {Cell(<<"beidong_yutai", "jianlve_xingshi", gender_plural_names[g]>>,
               {"PRTF", "past", "pssv", "shrt", g}) :
             g \in genders \cup {"plur"}}

AdjectiveCells ==
    {Cell(<<"danshu", gender_names[g], case_names[c]>>, {c, g, "sing"}) :
        g \in genders, c \in cases}
    \cup {Cell(<<"fushu", case_names[c]>>, {c, "plur"}) : c \in cases}
    \cup {Cell(<<"duanwei_xingshi", gender_names[g]>>, {"ADJS", g, "sing"}) :
             g \in genders}
    \cup {Cell(<<"duanwei_xingshi", "fushu">>, {"ADJS", "plur"})}

CellsOf(op, parse) ==
    CASE op = "generate_noun_inflections" -> NounCells
      [] op = "generate_verb_inflections" -> VerbCells
      [] op = "generate_adjective_inflections" -> AdjectiveCells
      [] op = "generate_numeral_inflections" -> NumberCaseCells
      [] op = "generate_pronoun_inflections" -> NumberCaseCells
      [] op = "generate_generic_inflections" -> GenericCells(parse)

\* whether the table has an entry under the path of keys, and the entry
RECURSIVE Has(_, _)
Has(table, path) ==
    \/ path = <<>>
    \/ /\ path[1] \in DOMAIN table
       /\ Has(table[path[1]], Tail(path))

RECURSIVE At(_, _)
At(table, path) == IF path = <<>> THEN table ELSE At(table[path[1]], Tail(path))

\* C1: in each of the six paradigm routines every cell is requested on its
\* own: whichever inflect calls return nothing or raise, the routine returns,
\* and its table has a form under a cell's keys exactly when that cell's
\* inflect call succeeded, the form being the one the call returned.
C1_CellsIndependent ==
    (call.op \in ParadigmOps /\ call.morph # None) =>
        /\ call.raised = None
        /\ \A cell \in CellsOf(call.op, call.parse) :
              /\ Has(call.result, cell.path)
                    <=> InflectOutcome(call.parse, cell.req, call.faults) = "form"
              /\ Has(call.result, cell.path) =>
                    At(call.result, cell.path) = InflectForm(call.parse, cell.req).word

\* a verb table built while one inflect call raised, with the cells around
\* the failed one in place
C1_Witness ==
    /\ call.op = "generate_verb_inflections"
    /\ "impf" \in call.parse.tag
    /\ \E f \in call.faults :
          f.site = "inflect" /\ f.kind = "resource" /\ f.req = {"pres", "2per", "sing"}
    /\ DOMAIN At(call.result, <<"zhudong_yutai", "xianzai_jianglaishi",
                                "xianzaishi", "danshu">>) = {"yi", "san"}
    /\ Has(call.result, <<"zhudong_yutai", "guoqushi", "yangxing">>)

\* the keys of a noun table, read through their display labels
NounTableKeys(table) ==
    /\ DOMAIN table \subseteq {"danshu", "fushu"}
    /\ \A n \in DOMAIN table :
          DOMAIN table[n] \subseteq
              {"zhuge", "shuge", "yuge", "binge", "gongjuge", "qianzhige"}
    /\ Cardinality(UNION {{<<n, c>> : c \in DOMAIN table[n]} : n \in DOMAIN table}) <= 12

\* C2: the table of a noun has no keys but the two numbers at its first
\* level and the six cases at its second, hence at most 12 cells; this holds
\* for the table generate_noun_inflections returns and for the NOUN entry of
\* generate_word_inflections (keys read through their display labels).
C2_NounKeys ==
    /\ call.op = "generate_noun_inflections" => NounTableKeys(call.result)
    /\ (call.op = "generate_word_inflections" /\ "NOUN" \in DOMAIN call.result.inflections)
          => NounTableKeys(call.result.inflections["NOUN"].inflections)

\* a noun table with all its 12 cells
C2_Witness ==
    /\ call.op = "generate_noun_inflections"
    /\ DOMAIN call.result = {"danshu", "fushu"}
    /\ \A n \in DOMAIN call.result : Cardinality(DOMAIN call.result[n]) = 6

\* C3: every form stored under the singular is the lexeme's singular form
\* of that case, every form under the plural its plural form of that case,
\* whatever the number of the analysed form.
C3_NumberOfForms ==
    (call.op = "generate_noun_inflections" /\ call.morph # None) =>
        \A n \in numbers, c \in cases :
            Has(call.result, <<number_names[n], case_names[c]>>) =>
                \E f \in Range(Lexeme(call.parse.lex)) :
                    /\ {n, c} \subseteq f.tag
                    /\ f.word = At(call.result, <<number_names[n], case_names[c]>>)

\* C4: for a perfective verb no present-tense cell of the active voice is
\* populated, and each populated future cell holds a form the lexeme has
\* for that future person and number.
C4_PerfectiveHasNoPresent ==
    (call.op = "generate_verb_inflections" /\ call.morph # None
        /\ "perf" \in call.parse.tag) =>
        /\ \A n \in numbers, q \in persons :
              ~Has(call.result, <<"zhudong_yutai", "xianzai_jianglaishi",
                                  "xianzaishi", number_names[n], person_names[q]>>)
        /\ \A n \in numbers, q \in persons :
              Has(call.result, <<"zhudong_yutai", "xianzai_jianglaishi",
                                 "jianglaishi", number_names[n], person_names[q]>>) =>
                  \E f \in Range(Lexeme(call.parse.lex)) :
                      /\ {"futr", q, n} \subseteq f.tag
                      /\ f.word = At(call.result,
                                     <<"zhudong_yutai", "xianzai_jianglaishi",
                                       "jianglaishi", number_names[n], person_names[q]>>)

\* the table of a perfective verb with its six future cells
C4_Witness ==
    /\ call.op = "generate_verb_inflections"
    /\ call.morph # None
    /\ "perf" \in call.parse.tag
    /\ \A n \in numbers :
          DOMAIN At(call.result, <<"zhudong_yutai", "xianzai_jianglaishi",
                                   "jianglaishi", number_names[n]>>)
              = {"yi", "er", "san"}

\* C5: without the analyzer, analysing a word gives one synthetic analysis:
\* the lower-cased word as lemma, no grammemes, confidence 1.0 (1000
\* thousandths).
C5_SyntheticAnalysis ==
    (call.op = "analyze" /\ call.morph = None /\ Truthy(call.args.word)) =>
        /\ call.result.lemma = Lower(call.args.word)
        /\ call.result.grammemes = {}
        /\ Get(call.result, "confidence", 0) = 1000

\* the analyzer is missing, or its construction raised in this call
Unavailable(c) == pymorphy2 = None \/ c.ctor = "raise"

\* C6: with pymorphy2 missing or its construction raising,
\* generate_word_inflections and the six routines return an empty paradigm
\* and no exception escapes them.
C6_EmptyParadigmWhenUnavailable ==
    /\ (call.op \in ParadigmOps /\ Unavailable(call)) =>
          call.raised = None /\ DOMAIN call.result = {}
    /\ (call.op = "generate_word_inflections" /\ Unavailable(call)) =>
          /\ call.raised = None
          /\ DOMAIN call.result.inflections = {}
          /\ call.result.normal_form = Lower(call.word)

\* both ways of being unavailable happen: a routine called while the
\* construction raises, with an analysis whose lexeme has forms to give
C6_Witness ==
    /\ call.op = "generate_noun_inflections"
    /\ call.ctor = "raise"
    /\ call.parse.lex = "kniga"
    /\ call.result = EmptyDict

\* the tokens of a text whose own lower-cased spelling is a key of the index
IdentityMatches(text, vocab_index) ==
    IF ~Truthy(text) THEN {}
    ELSE {w \in Range(split_text_with_positions(text)) :
             Lower(w.word) \in DOMAIN vocab_index}

\* C7 as stated: without the analyzer find_matches_in_text returns no span
\* and highlight_text returns the text without markup.
C7_NoMatchesWhenUnavailable ==
    /\ (call.op = "find_matches_in_text" /\ call.morph = None) => call.result = <<>>
    /\ (call.op = "highlight_text" /\ call.morph = None) =>
          call.raised = None /\ call.result = call.args.text

\* C7 amended: without the analyzer a token is its own lemma:
\* find_matches_in_text returns a span for exactly the tokens whose
\* lower-cased spelling is a key of the index, and highlight_text returns the
\* text unchanged when there is no such token and changes it when there is one.
C7_IdentityLemmaWhenUnavailable ==
    /\ (call.op = "find_matches_in_text" /\ call.morph = None) =>
          /\ {[word |-> m.text, start |-> m.start, end |-> m.end] :
                 m \in Range(call.result)}
                = IdentityMatches(call.args.text, call.args.vocab_index)
          /\ \A m \in Range(call.result) : m.lemma = m.text
    /\ (call.op = "highlight_text" /\ call.morph = None
           /\ IdentityMatches(call.args.text, call.args.vocab_index) = {}) =>
          call.raised = None /\ call.result = call.args.text
    /\ (call.op = "highlight_text" /\ call.morph = None /\ call.raised = None
           /\ IdentityMatches(call.args.text, call.args.vocab_index) # {}) =>
          call.result # call.args.text

\* a span found, and a text marked, without the analyzer
C7_Witness ==
    /\ call.op = "highlight_text"
    /\ call.morph = None
    /\ call.raised = None
    /\ Cardinality(IdentityMatches(call.args.text, call.args.vocab_index)) = 2
    /\ Len(call.result) > Len(call.args.text)

\* the analyzer is there, no call fails, and the word has no analysis
ZeroCandidates(c) == c.morph # None /\ c.faults = {} /\ Parses(c.word) = <<>>

\* C8: a word with zero candidate analyses, the analyzer being available:
\* normalize_word returns the lower-cased word alone, analyze_word_morphology
\* the lower-cased word as its only normal form with no analyses, and
\* generate_word_inflections the lower-cased word with empty inflections.
C8_ZeroCandidates ==
    /\ (call.op = "normalize_word" /\ ZeroCandidates(call)) =>
          call.result = {Lower(call.word)}
    /\ (call.op = "analyze_word_morphology" /\ ZeroCandidates(call)) =>
          call.result.normal_forms = {Lower(call.word)} /\ call.result.analyses = <<>>
    /\ (call.op = "generate_word_inflections" /\ ZeroCandidates(call)) =>
          /\ call.result.normal_form = Lower(call.word)
          /\ DOMAIN call.result.inflections = {}

\* C9: an inflect call of a paradigm routine that raises for another reason
\* than an invalid combination (resource exhaustion) reaches the caller: the
\* routine raises or its result reports the error.
C9_ResourceErrorSurfaced ==
    (call.op \in ParadigmOps /\ call.morph # None
        /\ \E f \in call.faults :
              /\ f.site = "inflect" /\ f.kind = "resource"
              /\ \E cell \in CellsOf(call.op, call.parse) : cell.req = f.req) =>
        call.raised # None \/ "error" \in DOMAIN call.result

\* C10: no exception escapes an operation, whatever its input.
C10_NoExceptionEscapes == call.raised = None

\* an empty or whitespace-only str
Blank(x) == x # NoneText /\ Strip(x) = <<>>

\* C11: given an empty or whitespace-only word or text, find_matches_in_text
\* returns the empty list, highlight_text returns the text as it is,
\* get_lemma returns its input and generate_word_inflections returns an
\* empty paradigm; none of them raises.
C11_BlankInput ==
    /\ (call.op = "find_matches_in_text" /\ Blank(call.args.text)) =>
          call.raised = None /\ call.result = <<>>
    /\ (call.op = "highlight_text" /\ Blank(call.args.text)) =>
          call.raised = None /\ call.result = call.args.text
    /\ (call.op = "get_lemma" /\ Blank(call.args.word)) =>
          call.raised = None /\ call.result = call.args.word
    /\ (call.op = "generate_word_inflections" /\ Blank(call.word)) =>
          call.raised = None /\ DOMAIN call.result.inflections = {}

C11_Witness ==
    /\ call.op = "highlight_text"
    /\ call.args.text = <<" ", " ">>
    /\ DOMAIN call.args.vocab_index # {}
    /\ call.morph # None
    /\ call.result = <<" ", " ">>


\* C12: with the analyzer available and parse returning at least one
\* analysis, normalize_word of app.py returns exactly the lemmas of all the
\* analyses of the word, each once (not only the lemma of the top one); the
\* result is not empty and no lemma in it is the empty string.
C12_AllDistinctLemmas ==
    (/\ call.op = "normalize_word"
     /\ call.morph # None
     /\ ~ParseRaises(call.word, call.faults)
     /\ Parses(call.word) # <<>>) =>
        /\ \A i \in DOMAIN Parses(call.word) :
              Parses(call.word)[i].normal_form \in call.result
        /\ \A lemma \in call.result :
              /\ \E i \in DOMAIN Parses(call.word) :
                    Parses(call.word)[i].normal_form = lemma
              /\ lemma # <<>>
        /\ call.result # {}

C12_Witness ==
    /\ call.op = "normalize_word"
    /\ call.morph # None
    /\ call.word = Uzhe
    /\ call.faults = {}
    /\ Cardinality(call.result) = 2


\* C13: MorphAnalyzer.normalize_word is idempotent: normalizing its result
\* again gives the same result, for every word, also one with whitespace
\* around it and punctuation at both ends.
C13_NormalizeIdempotent ==
    (call.op = "MorphAnalyzer.normalize_word") =>
        MorphAnalyzer_normalize_word(call.result) = call.result

\* sub occurs in s as a run of consecutive characters
Substring(sub, s) ==
    \E i \in 0..(Len(s) - Len(sub)) : SubSeq(s, i + 1, i + Len(sub)) = sub

\* C14: the result of MorphAnalyzer.normalize_word is a contiguous
\* substring of the word (no inner character removed or changed); it ends
\* with no character of the trailing set and starts with no character of
\* the leading set; a word made only of trimmed characters gives the empty
\* string.
C14_NormalizeTrims ==
    (call.op = "MorphAnalyzer.normalize_word" /\ call.args.word # NoneText) =>
        /\ Substring(call.result, call.args.word)
        /\ call.result # <<>> =>
              /\ call.result[Len(call.result)] \notin TrailingPunctuation
              /\ call.result[1] \notin LeadingPunctuation
        /\ Range(call.args.word) \subseteq TrailingPunctuation => call.result = <<>>


\* the stripped word of a vocabulary entry, whether the entry has one, and
\* the key it resolves to: its lemma if it has one, else the lemma of its word
EntryWord(item) == Strip(Get(item, "word", <<>>))

HasWord(item) == EntryWord(item) # <<>>

EntryKey(item, morph, faults) ==
    Lower(IF Get(item, "lemma", NoneText) \notin {NoneText, <<>>}
          THEN item["lemma"]
          ELSE get_lemma(EntryWord(item), morph, faults))

\* the position of the first entry with a word that resolves to the key
FirstOf(vocab_words, key, morph, faults) ==
    CHOOSE i \in DOMAIN vocab_words :
        /\ HasWord(vocab_words[i]) /\ EntryKey(vocab_words[i], morph, faults) = key
        /\ \A j \in 1..(i - 1) :
              ~(HasWord(vocab_words[j]) /\ EntryKey(vocab_words[j], morph, faults) = key)

FirstWins(vocab_words, index, morph, faults) ==
    /\ DOMAIN index =
          {EntryKey(vocab_words[i], morph, faults) :
              i \in {j \in DOMAIN vocab_words : HasWord(vocab_words[j])}}
    /\ \A key \in DOMAIN index :
          /\ key = Lower(index[key].lemma)
          /\ index[key].original_item =
                vocab_words[FirstOf(vocab_words, key, morph, faults)]
          /\ index[key].word =
                EntryWord(vocab_words[FirstOf(vocab_words, key, morph, faults)])
          /\ index[key].meaning =
                Get(vocab_words[FirstOf(vocab_words, key, morph, faults)], "meaning", <<>>)
          /\ index[key].note =
                Get(vocab_words[FirstOf(vocab_words, key, morph, faults)], "note", <<>>)

\* C15: the index prepare_vocab_index returns has one key for each lemma
\* (lower-cased) that an entry with a non-blank word resolves to, and no
\* other; the value of a key is the metadata of the first such entry in list
\* order, never of a later one, and every key is the lower-case form of its
\* value's lemma.
C15_FirstEntryWins ==
    (call.op = "prepare_vocab_index" /\ call.raised = None) =>
        FirstWins(call.args.vocab_words, call.result, call.morph, call.faults)

C15_Witness ==
    /\ call.op = "prepare_vocab_index"
    /\ call.raised = None
    /\ Len(call.args.vocab_words) = 2
    /\ call.args.vocab_words[1] # call.args.vocab_words[2]
    /\ HasWord(call.args.vocab_words[1])
    /\ HasWord(call.args.vocab_words[2])
    /\ DOMAIN call.result = {Kniga}
    /\ call.result[Kniga].original_item = call.args.vocab_words[1]


\* the key of an entry whose word is normalized before it is lemmatized
NormalizedKey(item, morph, faults) ==
    Lower(IF Get(item, "lemma", NoneText) \notin {NoneText, <<>>}
          THEN item["lemma"]
          ELSE get_lemma(MorphAnalyzer_normalize_word(EntryWord(item)), morph, faults))

\* C16: in the index prepare_vocab_index builds, the lemma of an entry is
\* the lemma the entry provides, if it provides a non-empty one, and else
\* the top lemma of the normalized word, get_lemma(normalize_word(word)):
\* an entry whose word carries punctuation gets the key of the bare word.
C16_LemmaOfNormalizedWord ==
    (call.op = "prepare_vocab_index" /\ call.raised = None) =>
        DOMAIN call.result =
            {NormalizedKey(call.args.vocab_words[i], call.morph, call.faults) :
                i \in {j \in DOMAIN call.args.vocab_words :
                          HasWord(call.args.vocab_words[j])}}


\* the tokens of the text that hold the character at position i (from 1)
TokensAt(text, i) ==
    {w \in Range(split_text_with_positions(text)) : w.start < i /\ i <= w.end}

\* C17: find_matches_in_text splits the text into maximal runs of word
\* characters in which a hyphen or an apostrophe between two word characters
\* belongs to the token: such a character lies inside one token, together
\* with the characters before and after it ("kto-to" is one token).
C17_InnerHyphenInToken ==
    (call.op = "find_matches_in_text" /\ call.args.text # NoneText) =>
        \A i \in 2..(Len(call.args.text) - 1) :
            (/\ call.args.text[i] \in {"-", "'"}
             /\ call.args.text[i - 1] \in WordChars
             /\ call.args.text[i + 1] \in WordChars) =>
                /\ TokensAt(call.args.text, i) # {}
                /\ TokensAt(call.args.text, i) = TokensAt(call.args.text, i - 1)
                /\ TokensAt(call.args.text, i) = TokensAt(call.args.text, i + 1)


\* the index key of a token: the lower-cased top lemma of the normalized token
TokenKey(word, morph, faults) ==
    Lower(get_lemma(MorphAnalyzer_normalize_word(word), morph, faults))

\* the spans among matches that lie at the offsets of the token
SpansOf(matches, w) ==
    {i \in DOMAIN matches : matches[i].start = w.start /\ matches[i].end = w.end}

ExactSpans(text, vocab_index, morph, faults, matches) ==
    /\ \A i \in DOMAIN matches :
          /\ 0 <= matches[i].start
          /\ matches[i].start < matches[i].end
          /\ matches[i].end <= Len(text)
          /\ SubSeq(text, matches[i].start + 1, matches[i].end) = matches[i].text
          /\ SpansOf(matches, matches[i]) = {i}
          /\ \E w \in Range(split_text_with_positions(text)) :
                w.start = matches[i].start /\ w.end = matches[i].end
          /\ TokenKey(matches[i].text, morph, faults) \in DOMAIN vocab_index
          /\ matches[i].vocab_info =
                vocab_index[TokenKey(matches[i].text, morph, faults)]
    /\ \A w \in Range(split_text_with_positions(text)) :
          (SpansOf(matches, w) # {}) <=>
              (TokenKey(w.word, morph, faults) \in DOMAIN vocab_index)

\* C18: every span find_matches_in_text returns has exact offsets into the
\* text it was given, 0 <= start < end <= len(text) with text[start:end] the
\* span's text; a token has a span if and only if the lower-cased top lemma
\* of the normalized token is a key of the vocabulary index, and the span's
\* vocab_info is the index value of that key.
C18_ExactSpans ==
    (call.op = "find_matches_in_text" /\ call.args.text # NoneText) =>
        ExactSpans(call.args.text, call.args.vocab_index, call.morph,
                   call.faults, call.result)

C18_Witness ==
    /\ call.op = "find_matches_in_text"
    /\ call.morph # None
    /\ call.args.text # NoneText
    /\ Len(call.result) = 1
    /\ call.result[1].start > 0
    /\ call.result[1].end < Len(call.args.text)
    /\ Len(split_text_with_positions(call.args.text)) = 2


\* C19: the spans find_matches_in_text returns are in strictly ascending
\* order of start and do not overlap: of two consecutive spans the first
\* ends at or before the start of the second.
C19_AscendingDisjointSpans ==
    (call.op = "find_matches_in_text") =>
        \A i \in 1..(Len(call.result) - 1) :
            /\ call.result[i].start < call.result[i + 1].start
            /\ call.result[i].end <= call.result[i + 1].start

C19_Witness ==
    /\ call.op = "find_matches_in_text"
    /\ call.morph # None
    /\ Len(call.result) = 2
    /\ call.result[1].text # call.result[2].text


\* the position lies in an opening mark tag: from the start of the tag to
\* its closing ">
InTag(html, i) ==
    \E j \in 1..i :
        /\ html[j] = "<mark class=\"vocab-match\" data-lemma=\""
        /\ \A k \in j..(i - 1) : html[k] # "\">"

Positions(html) == [i \in DOMAIN html |-> i]

\* the positions of the output that are no part of a wrapper
Kept(html) ==
    SelectSeq(Positions(html), LAMBDA i : ~InTag(html, i) /\ html[i] # "</mark>")

Pick(html, positions) == [n \in DOMAIN positions |-> html[positions[n]]]

\* the output without the wrappers
StripMarks(html) == Pick(html, Kept(html))

\* the texts the wrappers enclose, in order: each from the end of an
\* opening tag to the </mark> that follows
Closings(html) == SelectSeq(Positions(html), LAMBDA i : html[i] = "</mark>")

TagEndBefore(html, c) ==
    CHOOSE j \in 0..(c - 1) :
        /\ j > 0 => html[j] = "\">"
        /\ \A k \in (j + 1)..(c - 1) : html[k] # "\">"

Enclosed(html, closings) ==
    [n \in DOMAIN closings |->
        SubSeq(html, TagEndBefore(html, closings[n]) + 1, closings[n] - 1)]

MarkedTexts(html) == Enclosed(html, Closings(html))

SpanTexts(matches) == [i \in DOMAIN matches |-> matches[i].text]

\* C20: taking every inserted wrapper (the opening mark tag and the closing
\* </mark>) out of the output of highlight_text gives the original text
\* exactly; the wrapped pieces are exactly the matched spans, in order.
C20_StripRestoresText ==
    (call.op = "highlight_text" /\ call.raised = None
        /\ call.args.text # NoneText) =>
        /\ StripMarks(call.result) = call.args.text
        /\ MarkedTexts(call.result) =
              SpanTexts(find_matches_in_text(call.args.text, call.args.vocab_index,
                                             call.morph, call.faults))

C20_Witness ==
    /\ call.op = "highlight_text"
    /\ call.raised = None
    /\ call.morph # None
    /\ call.args.text # NoneText
    /\ Len(MarkedTexts(call.result)) = 2
    /\ call.args.text[Len(call.args.text)] = "&"


\* the five entities and the character each stands for
Entities ==
    { [text |-> <<"&", "a", "m", "p", ";">>, char |-> "&"],
      [text |-> <<"&", "l", "t", ";">>, char |-> "<"],
      [text |-> <<"&", "g", "t", ";">>, char |-> ">"],
      [text |-> <<"&", "q", "u", "o", "t", ";">>, char |-> "\""],
      [text |-> <<"&", "#", "3", "9", ";">>, char |-> "'"] }

\* the entities that begin at position i of the value
EntitiesAt(value, i) ==
    {e \in Entities :
        /\ i + Len(e.text) - 1 <= Len(value)
        /\ SubSeq(value, i, i + Len(e.text) - 1) = e.text}

\* the position lies in an entity, after its &
InEntity(value, j) ==
    \E i \in 1..(j - 1) : \E e \in EntitiesAt(value, i) : j < i + Len(e.text)

DecodeAt(value, i) ==
    IF value[i] = "&" THEN (CHOOSE e \in EntitiesAt(value, i) : TRUE).char
    ELSE value[i]

DecodeEach(value, positions) ==
    [n \in DOMAIN positions |-> DecodeAt(value, positions[n])]

\* the value with every entity put back to its character
Decode(value) ==
    DecodeEach(value, SelectSeq(Positions(value), LAMBDA j : ~InEntity(value, j)))

\* the value holds no raw markup character, and each & begins an entity
Escaped(value) ==
    \A i \in DOMAIN value :
        /\ value[i] \notin {"<", ">", "\"", "'"}
        /\ value[i] = "&" => EntitiesAt(value, i) # {}

\* the positions of a piece of the wrapper in the output
PositionsOf(html, piece) == SelectSeq(Positions(html), LAMBDA i : html[i] = piece)

\* the text of an attribute or None as the escape takes it
AsText(x) == IF x = NoneText THEN <<>> ELSE x

\* the value between two pieces of the n-th wrapper is escaped and decodes
\* to the given field of the n-th match
AttributeEscaped(html, from, to, matches, field) ==
    /\ Len(from) = Len(matches)
    /\ Len(to) = Len(matches)
    /\ \A n \in DOMAIN matches :
          /\ Escaped(SubSeq(html, from[n] + 1, to[n] - 1))
          /\ Decode(SubSeq(html, from[n] + 1, to[n] - 1)) =
                AsText(matches[n].vocab_info[field])

AttributesEscaped(html, matches) ==
    /\ AttributeEscaped(html,
          PositionsOf(html, "<mark class=\"vocab-match\" data-lemma=\""),
          PositionsOf(html, "\" data-meaning=\""), matches, "lemma")
    /\ AttributeEscaped(html,
          PositionsOf(html, "\" data-meaning=\""),
          PositionsOf(html, "\" data-note=\""), matches, "meaning")
    /\ AttributeEscaped(html,
          PositionsOf(html, "\" data-note=\""),
          PositionsOf(html, "\">"), matches, "note")

\* C21: in the output of highlight_text the lemma, meaning and note
\* attribute values of every wrapper hold no raw < > " or ', every & in them
\* begins one of the five entities, and putting the entities back once gives
\* the vocabulary value: each character is escaped exactly once.
C21_AttributesEscaped ==
    (call.op = "highlight_text" /\ call.raised = None
        /\ call.args.text # NoneText) =>
        AttributesEscaped(call.result,
            find_matches_in_text(call.args.text, call.args.vocab_index,
                                 call.morph, call.faults))

C21_Witness ==
    /\ call.op = "highlight_text"
    /\ call.raised = None
    /\ call.morph # None
    /\ call.args.text # NoneText
    /\ Len(MarkedTexts(call.result)) = 1
    /\ \E key \in DOMAIN call.args.vocab_index :
          /\ "meaning" \in DOMAIN call.args.vocab_index[key]
          /\ call.args.vocab_index[key].meaning = Markup


\* the (start, end, lemma) triples of the spans
Triples(matches) ==
    [i \in DOMAIN matches |-> <<matches[i].start, matches[i].end, matches[i].lemma>>]

GlobalPcs ==
    {"check_global", "construct_global", "assign_global", "return_global",
     "done_global"}

InstancePcs ==
    {"check_instance", "new_instance", "construct_morph", "assign_morph",
     "return_instance", "get_lemma", "done_instance"}

\* the threads in such a call that constructed an analyzer
Constructors(pcs) ==
    {t \in Threads : threads[t].pc \in pcs /\ threads[t].local # 0}

\* the objects the finished calls returned
Received(pc) == {threads[t].got : t \in {u \in Threads : threads[u].pc = pc}}

\* C23: under every interleaving of simultaneous first calls the analyzer
\* of get_morph_analyzer, and that of MorphAnalyzer(), is constructed at most
\* once, and all callers receive the same object.
C23_ConstructedOnce ==
    /\ Cardinality(Constructors(GlobalPcs)) <= 1
    /\ Cardinality(Constructors(InstancePcs)) <= 1
    /\ Cardinality(Received("done_global") \ {0}) <= 1
    /\ Cardinality(Received("done_instance")) <= 1

\* C29: with pymorphy2 available and no construction having raised, no
\* caller of MorphAnalyzer() gets the degraded result from get_lemma: the
\* lemma of a word the dictionary holds is its normal form, never the word.
C29_NeverUnsetAnalyzer ==
    (pymorphy2 # None /\ ~shared.raised) =>
        \A t \in Threads :
            threads[t].pc = "done_instance" => threads[t].lemma = Kniga


\* a call of generate_word_inflections, the analyzer found and the parse of
\* the word not failing, on a word whose candidates are all infinitives
InfinitiveCall(c) ==
    /\ c.op = "generate_word_inflections"
    /\ c.morph # None
    /\ ~ParseRaises(c.word, c.faults)
    /\ PosOrder(Parses(c.word), {}) = <<"INFN">>

\* the first person singular of the infinitive was formed and re-parsed, and
\* the first analysis of that form is tagged VERB
ReparsedAsVerb(best_parse, faults) ==
    /\ CellFilled(best_parse, {"1per", "sing"}, faults)
    /\ ~ParseRaises(CellWord(best_parse, {"1per", "sing"}), faults)
    /\ Parses(CellWord(best_parse, {"1per", "sing"})) # <<>>
    /\ "VERB" \in Parses(CellWord(best_parse, {"1per", "sing"}))[1].tag

\* a table of the verb routine, and one keyed by case only
VerbTable(table) == "budingshi" \in DOMAIN table
CaseTable(table) == DOMAIN table \subseteq {case_names[c] : c \in cases}

\* C24: for an INFN candidate the verb routine is entered only with a
\* re-parsed analysis tagged VERB; in every other case (no first person
\* singular, inflect raising, no re-parse, re-parsed first analysis not a
\* VERB) the table is the generic one, keyed only by case.
C24_VerbRoutineOnlyForVerb ==
    InfinitiveCall(call) =>
        \A k \in DOMAIN call.result.inflections :
            LET table == call.result.inflections[k].inflections
            IN IF ReparsedAsVerb(Parses(call.word)[1], call.faults)
               THEN VerbTable(table)
               ELSE CaseTable(table)


\* a call of generate_word_inflections that found the analyzer and parsed
\* the word
ParsedCall(c) ==
    /\ c.op = "generate_word_inflections"
    /\ c.morph # None
    /\ ~ParseRaises(c.word, c.faults)

\* the parts of speech of the candidates
CandidatePOS(word) == Range(PosOrder(Parses(word), {}))

\* the first candidate of a part of speech, in the analyzer's order
FirstCandidate(word, pos) ==
    Parses(word)[CHOOSE i \in DOMAIN Parses(word) :
                    /\ TagAttr(Parses(word)[i].tag, POSTags) = pos
                    /\ \A j \in 1..(i - 1) :
                          TagAttr(Parses(word)[j].tag, POSTags) # pos]

\* the generic table of an analysis: its six case forms, each where the
\* analyzer has one, if the analysis carries a case, and nothing otherwise
GenericTable(table, parse, faults) ==
    IF parse.tag \cap CaseTags = {} THEN table = EmptyDict
    ELSE /\ DOMAIN table =
               {case_names[c] : c \in {d \in cases : CellFilled(parse, {d}, faults)}}
         /\ \A c \in cases :
               CellFilled(parse, {c}, faults) =>
                   table[case_names[c]] = CellWord(parse, {c})

\* the table the routine of a part of speech builds from an analysis
RoutineTable(pos, table, parse, morph, faults) ==
    CASE pos = "NOUN" -> table = generate_noun_inflections(parse, morph, faults)
      [] pos = "VERB" -> table = generate_verb_inflections(parse, morph, faults)
      [] pos \in {"ADJF", "ADJS"} ->
             table = generate_adjective_inflections(parse, morph, faults)
      [] pos = "NUMR" -> table = generate_numeral_inflections(parse, morph, faults)
      [] pos = "NPRO" -> table = generate_pronoun_inflections(parse, morph, faults)
      [] OTHER -> GenericTable(table, parse, faults)

\* C25: the paradigm of a candidate is built by the routine of its POS: the
\* noun routine for NOUN, the verb routine for VERB, the adjective routine
\* for ADJF and ADJS, the numeral routine for NUMR, the pronoun routine for
\* NPRO, and for every other POS (the infinitive apart) the generic routine,
\* which gives the case forms of an analysis that carries a case and an
\* empty table otherwise.
C25_DispatchByPOS ==
    ParsedCall(call) =>
        \A pos \in CandidatePOS(call.word) \ {"INFN"} :
            /\ pos \in DOMAIN call.result.inflections
            /\ RoutineTable(pos, call.result.inflections[pos].inflections,
                            FirstCandidate(call.word, pos), call.morph, call.faults)

\* a participle, which carries a case, got its case forms from the generic
\* routine
C25_Witness ==
    /\ ParsedCall(call)
    /\ "PRTF" \in DOMAIN call.result.inflections
    /\ "zhuge" \in DOMAIN call.result.inflections["PRTF"].inflections
    /\ call.faults # {}


\* highlight_text is inside its loop
InLoop == call.op = "highlight_text loop"

\* C26: highlight_text substitutes the matches in strictly descending order
\* of start, and whenever a match is still to be substituted the working
\* string equals the original text up to the end of that match: the slice
\* it will replace is the match's original text.
C26_PrefixUntouched ==
    InLoop =>
        /\ \A i, j \in DOMAIN call.matches :
              i < j => call.matches[i].start > call.matches[j].start
        /\ \A i \in DOMAIN call.done, j \in DOMAIN call.matches :
              call.done[i].start > call.matches[j].start
        /\ \A i, j \in DOMAIN call.done :
              i < j => call.done[i].start > call.done[j].start
        /\ \A j \in DOMAIN call.matches :
              /\ SubSeq(call.result, 1, call.matches[j].end) =
                    SubSeq(call.args.text, 1, call.matches[j].end)
              /\ SubSeq(call.result, call.matches[j].start + 1, call.matches[j].end) =
                    call.matches[j].text

\* the loop result of the whole function is that of highlight_text
HighlightTextStepwise ==
    (call.op = "highlight_text" /\ call.raised = None) =>
        call.result = highlight_text(call.args.text, call.args.vocab_index,
                                     call.morph, call.faults).result

\* one match has been substituted, so the working string is longer than the
\* text, and an earlier one is still to come
C26_Witness ==
    /\ InLoop
    /\ Len(call.done) = 1
    /\ Len(call.matches) = 1
    /\ Len(call.result) > Len(call.args.text)
    /\ call.done[1].start > call.matches[1].end


\* C27: the candidates keep the analyzer's order: analyze_word_morphology
\* lists them in that order with their scores; the normal_form of
\* generate_word_inflections is that of the first candidate; and the entry
\* of each POS (the infinitive apart) has the normal_form of, and the
\* paradigm built from, the first candidate of that POS.
C27_AnalyzerOrder ==
    /\ (/\ call.op = "analyze_word_morphology"
        /\ call.morph # None
        /\ ~ParseRaises(call.word, call.faults)) =>
          /\ Len(call.result.analyses) = Len(Parses(call.word))
          /\ \A i \in DOMAIN Parses(call.word) :
                /\ call.result.analyses[i].normal_form = Parses(call.word)[i].normal_form
                /\ call.result.analyses[i].tag = Parses(call.word)[i].tag
                /\ call.result.analyses[i].score = Parses(call.word)[i].score
    /\ (ParsedCall(call) /\ Parses(call.word) # <<>>) =>
          /\ call.result.normal_form = Parses(call.word)[1].normal_form
          /\ \A pos \in CandidatePOS(call.word) \ {"INFN"} :
                /\ pos \in DOMAIN call.result.inflections
                /\ call.result.inflections[pos].normal_form =
                      FirstCandidate(call.word, pos).normal_form
                /\ RoutineTable(pos, call.result.inflections[pos].inflections,
                                FirstCandidate(call.word, pos), call.morph, call.faults)

\* vina has two NOUN candidates, of vina and of vino: the entry is that of
\* vina, the first, with its genitive viny
C27_Witness ==
    /\ ParsedCall(call)
    /\ call.word = Vina
    /\ call.faults = {}
    /\ Len(Parses(call.word)) = 2
    /\ Parses(call.word)[2].normal_form = Vino
    /\ call.result.inflections["NOUN"].normal_form = Vina
    /\ call.result.inflections["NOUN"].inflections["danshu"]["shuge"] = <<"v", "i", "n", "y">>


\* C28: the inflections of generate_word_inflections hold exactly one entry
\* for each POS found among the candidates, under that POS as its key (none
\* under None): the entry of an INFN candidate is under INFN, apart from the
\* entry of any other POS of the word.
C28_OneEntryPerPOS ==
    ParsedCall(call) =>
        /\ DOMAIN call.result.inflections = CandidatePOS(call.word)
        /\ None \notin DOMAIN call.result.inflections


\* the keys a table has under a path of keys, none if the path is not there
KeysAt(table, path) == IF Has(table, path) THEN DOMAIN At(table, path) ELSE {}

\* C30: with the analyzer available the noun, numeral and pronoun tables
\* always hold both number keys, and the verb table always holds both tense
\* keys, each with both number keys, the past-tense, imperative and
\* participle keys, and the infinitive, equal to the lemma of the analysis,
\* whether or not any form could be built.
C30_KeysAlwaysPresent ==
    /\ (/\ call.op \in {"generate_noun_inflections", "generate_numeral_inflections",
                         "generate_pronoun_inflections"}
        /\ call.morph # None) =>
          /\ call.raised = None
          /\ DOMAIN call.result = {"danshu", "fushu"}
    /\ (call.op = "generate_verb_inflections" /\ call.morph # None) =>
          /\ call.raised = None
          /\ KeysAt(call.result, <<"zhudong_yutai", "xianzai_jianglaishi">>) =
                {tense_names[t] : t \in tenses}
          /\ \A t \in tenses :
                KeysAt(call.result,
                       <<"zhudong_yutai", "xianzai_jianglaishi", tense_names[t]>>) =
                    {"danshu", "fushu"}
          /\ {"guoqushi", "minglingshi", "guoqushi_zhudong_xingdongci"}
                \subseteq KeysAt(call.result, <<"zhudong_yutai">>)
          /\ "guoqushi_beidong_xingdongci" \in KeysAt(call.result, <<"beidong_yutai">>)
          /\ Has(call.result, <<"budingshi">>)
          /\ call.result["budingshi"] = call.parse.normal_form

\* a numeral has no number: none of the twelve forms asked of pyati can be
\* built, and the table is the two number keys with nothing under them
C30_Witness ==
    /\ call.op = "generate_numeral_inflections"
    /\ call.morph # None
    /\ call.faults = {}
    /\ DOMAIN call.result = {"danshu", "fushu"}
    /\ \A n \in DOMAIN call.result : DOMAIN call.result[n] = {}

====
